---- MODULE Spec2Model ----
(***************************************************************************)
(* Model of the Tessera TypeScript SDK: the transaction codec              *)
(* (serializeForSigning, serializeTransaction, the JSON wire form), the    *)
(* fee and hash computation, the TransactionBuilder, the Merkle root and   *)
(* the Ed25519 KeyPair.                                                    *)
(*                                                                         *)
(* Representation of values.                                               *)
(*  - A byte string (Uint8Array) is a sequence of byte symbols.  An        *)
(*    ordinary byte with value n is the record B(n) = [b |-> n].           *)
(*  - The outputs of the cryptographic primitives of the external          *)
(*    libraries (SHA3-256, Ed25519) are idealised: collision free and      *)
(*    unforgeable.  Such an output of length n is a sequence of n opaque   *)
(*    byte symbols, the first of which carries the term it was computed    *)
(*    from; see Sym.                                                       *)
(*  - A bigint is a sequence of base-256 limbs, least significant first,   *)
(*    without leading zero limbs (0n is the empty sequence), so that       *)
(*    values at and above 2^64 exist in the model.  Negative bigints are   *)
(*    not modelled.                                                        *)
(*  - A string is a sequence of characters; an ordinary character with     *)
(*    code point c is Ch(c) = [c |-> c].  The hex digits of an opaque byte *)
(*    symbol s are the opaque characters [hi |-> s] and [lo |-> s].        *)
(***************************************************************************)
EXTENDS Integers, Sequences, FiniteSets, TLC

(***************************************************************************)
(* Program constants (utils/constants)                                     *)
(***************************************************************************)
BASE_FEE == 1000
FEE_PER_KB_PAYLOAD == 100
STAKING_FEE == 10000
MAX_PAYLOAD_SIZE == 10240
ADDRESS_LENGTH == 32
SIGNATURE_LENGTH == 64
HASH_LENGTH == 32

\* enum TxType
Transfer == 0
Stake == 1
Unstake == 2
SubmitProposal == 3
Vote == 4
TxType == {Transfer, Stake, Unstake, SubmitProposal, Vote}

(***************************************************************************)
(* Byte strings                                                            *)
(***************************************************************************)
B(n) == [b |-> n]

IsByte(x) == DOMAIN x = {"b"}

\* new Uint8Array(n): n zero bytes
Zeros(n) == [i \in 1..n |-> B(0)]

\* n bytes that all have the value v
Fill(n, v) == [i \in 1..n |-> B(v)]

\* The n output bytes of an idealised primitive applied to term.
Sym(term, n) == [i \in 1..n |-> IF i = 1 THEN [sym |-> term] ELSE [pad |-> i]]

IsSym(bs, n) ==
    /\ Len(bs) = n
    /\ n >= 1
    /\ DOMAIN bs[1] = {"sym"}
    /\ \A i \in 2..n : bs[i] = [pad |-> i]

TermOf(bs) == bs[1].sym

(***************************************************************************)
(* bigint                                                                  *)
(***************************************************************************)
RECURSIVE FromNat(_)
\* BigInt(n) for a non-negative number n
FromNat(n) == IF n = 0 THEN <<>> ELSE <<n % 256>> \o FromNat(n \div 256)

\* 2^64 - 1, the largest value of an unsigned 64-bit integer
U64_MAX == [i \in 1..8 |-> 255]

\* 2^64
TWO_POW_64 == [i \in 1..9 |-> IF i = 9 THEN 1 ELSE 0]

InU64(v) == Len(v) <= 8

RECURSIVE Normalize(_)
\* drop the leading (most significant) zero limbs
Normalize(v) ==
    IF v = <<>> THEN <<>>
    ELSE IF v[Len(v)] = 0 THEN Normalize(SubSeq(v, 1, Len(v) - 1))
    ELSE v

RECURSIVE DivMod10(_, _, _)
\* long division of the limbs v[1..i] by 10, with incoming remainder rem;
\* q accumulates the quotient limbs
DivMod10(v, i, rem) ==
    IF i = 0 THEN [q |-> <<>>, r |-> rem]
    ELSE LET cur == rem * 256 + v[i]
             rest == DivMod10(v, i - 1, cur % 10)
         IN  [q |-> rest.q \o <<cur \div 10>>, r |-> rest.r]

RECURSIVE MulAdd(_, _, _)
\* v * m + carry on limbs
MulAdd(v, m, carry) ==
    IF v = <<>> THEN FromNat(carry)
    ELSE LET cur == v[1] * m + carry
         IN  <<cur % 256>> \o MulAdd(Tail(v), m, cur \div 256)

\* 2^53 + 1, the least integer that is not a double
TWO_POW_53_PLUS_1 == <<1, 0, 0, 0, 0, 0, 32>>

\* Number(v) of a bigint v below 2^54.  Below 2^53 every integer is a
\* double.  From 2^53 to 2^54 the doubles are the even integers, and an odd
\* v lies halfway between two of them: it is rounded to the one with the
\* even mantissa, the multiple of 4.  The result is written as the integer
\* that the double is.
Number(v) ==
    CASE Len(v) < 7 \/ (Len(v) = 7 /\ v[7] < 32) -> v
      [] Len(v) = 7 /\ v[7] >= 32 /\ v[7] < 64 ->
            IF v[1] % 2 = 0 THEN v
            ELSE IF v[1] % 4 = 1 THEN [v EXCEPT ![1] = @ - 1]
            ELSE Normalize(MulAdd(v, 1, 1))

(***************************************************************************)
(* Strings                                                                 *)
(***************************************************************************)
Ch(c) == [c |-> c]

IsCh(x) == DOMAIN x = {"c"}

\* the string of the ordinary characters with the given code points
Str(cps) == [i \in 1..Len(cps) |-> Ch(cps[i])]

RECURSIVE bigintToString(_)
\* BigInt.prototype.toString(): decimal digits, no sign, no leading zero
bigintToString(v) ==
    IF v = <<>> THEN <<Ch(48)>>
    ELSE LET d == DivMod10(v, Len(v), 0)
             q == Normalize(d.q)
         IN  IF q = <<>> THEN <<Ch(48 + d.r)>>
             ELSE bigintToString(q) \o <<Ch(48 + d.r)>>

IsDecimalDigit(x) == IsCh(x) /\ x.c >= 48 /\ x.c <= 57

RECURSIVE ParseDecimal(_, _)
ParseDecimal(s, acc) ==
    IF s = <<>> THEN acc
    ELSE ParseDecimal(Tail(s), Normalize(MulAdd(acc, 10, s[1].c - 48)))

\* the outcome of BigInt(string) when it throws a SyntaxError
BIGINT_SYNTAX_ERROR == <<0 - 1>>

\* BigInt(string) for a string of decimal digits ("" gives 0n); any other
\* string is a SyntaxError
BigInt(s) ==
    IF \A i \in 1..Len(s) : IsDecimalDigit(s[i])
    THEN ParseDecimal(s, <<>>)
    ELSE BIGINT_SYNTAX_ERROR

\* TextEncoder.encode of one code point (UTF-8); a lone surrogate is
\* replaced by U+FFFD
utf8(cp) ==
    IF cp < 128 THEN <<B(cp)>>
    ELSE IF cp < 2048 THEN <<B(192 + (cp \div 64)), B(128 + (cp % 64))>>
    ELSE IF cp >= 55296 /\ cp <= 57343 THEN <<B(239), B(191), B(189)>>
    ELSE IF cp < 65536
         THEN <<B(224 + (cp \div 4096)), B(128 + ((cp \div 64) % 64)),
                B(128 + (cp % 64))>>
    ELSE <<B(240 + (cp \div 262144)), B(128 + ((cp \div 4096) % 64)),
           B(128 + ((cp \div 64) % 64)), B(128 + (cp % 64))>>

RECURSIVE TextEncode(_)
\* new TextEncoder().encode(s): the encodings of the characters of s one
\* after another (computed by halves, so that a long string is not a deep
\* recursion)
TextEncode(s) ==
    IF s = <<>> THEN <<>>
    ELSE IF Len(s) = 1 THEN utf8(s[1].c)
    ELSE TextEncode(SubSeq(s, 1, Len(s) \div 2))
         \o TextEncode(SubSeq(s, Len(s) \div 2 + 1, Len(s)))

(***************************************************************************)
(* null and thrown errors                                                  *)
(***************************************************************************)
\* null where a byte string or a string is expected
NULL == <<[null |-> TRUE]>>

\* a TesseraError thrown where a byte string or a string would be returned
ThrowSeq(code) == <<[error |-> code]>>

IsThrownSeq(x) == Len(x) = 1 /\ DOMAIN x[1] = {"error"}

\* a TesseraError thrown where a record would be returned
Throw(code) == [error |-> code]

IsThrown(x) == DOMAIN x = {"error"}

(***************************************************************************)
(* utils/format: hex encoding and decoding                                 *)
(***************************************************************************)
\* (n).toString(16) for 0 <= n < 16: lower-case hex digit
HexDigit(n) == Ch(IF n < 10 THEN 48 + n ELSE 87 + n)

\* the two hex characters of one byte
HexOfByte(x) ==
    IF IsByte(x) THEN <<HexDigit(x.b \div 16), HexDigit(x.b % 16)>>
    ELSE <<[hi |-> x], [lo |-> x]>>

bytesToHex(bytes) ==
    [i \in 1..(2 * Len(bytes)) |-> HexOfByte(bytes[(i + 1) \div 2])[2 - (i % 2)]]

\* value of a hex digit character, -1 for any other character
HexVal(x) ==
    IF ~IsCh(x) THEN -1
    ELSE IF x.c >= 48 /\ x.c <= 57 THEN x.c - 48
    ELSE IF x.c >= 97 /\ x.c <= 102 THEN x.c - 87
    ELSE IF x.c >= 65 /\ x.c <= 70 THEN x.c - 55
    ELSE -1

\* [0-9a-fA-F]; the hex digits of an opaque byte are hex digits too
IsHexChar(x) == HexVal(x) >= 0 \/ DOMAIN x = {"hi"} \/ DOMAIN x = {"lo"}

IsWhite(x) == IsCh(x) /\ x.c \in {9, 10, 11, 12, 13, 32}

NaN == -1000

\* parseInt(c1 c2, 16) of a two-character string: leading white space and a
\* sign are skipped, a leading "0x" is stripped, then the longest prefix of
\* hex digits is read; NaN when there is none
parseInt16(c1, c2) ==
    LET v1 == HexVal(c1)
        v2 == HexVal(c2)
    IN  IF IsCh(c1) /\ c1.c = 48 /\ IsCh(c2) /\ c2.c \in {120, 88} THEN NaN
        ELSE IF v1 >= 0 THEN (IF v2 >= 0 THEN 16 * v1 + v2 ELSE v1)
        ELSE IF IsWhite(c1) \/ (IsCh(c1) /\ c1.c = 43)
             THEN (IF v2 >= 0 THEN v2 ELSE NaN)
        ELSE IF IsCh(c1) /\ c1.c = 45 THEN (IF v2 >= 0 THEN 0 - v2 ELSE NaN)
        ELSE NaN

StartsWith0x(hex) ==
    /\ Len(hex) >= 2
    /\ hex[1] = Ch(48)
    /\ hex[2] = Ch(120)

\* the byte that the characters c1 c2 denote, NaN when parseInt gives NaN
HexPairValue(c1, c2) ==
    IF DOMAIN c1 = {"hi"} /\ DOMAIN c2 = {"lo"} /\ c1.hi = c2.lo THEN c1.hi
    ELSE IF ~IsCh(c1) \/ ~IsCh(c2) \/ parseInt16(c1, c2) = NaN THEN B(NaN)
    ELSE B(parseInt16(c1, c2) % 256)

\* the loop of hexToBytes over cleanHex (of even length): throws at the
\* first pair that parseInt does not read
HexPairs(h) ==
    LET n == Len(h) \div 2
    IN  IF \E i \in 1..n : HexPairValue(h[2 * i - 1], h[2 * i]) = B(NaN)
        THEN ThrowSeq("INVALID_ADDRESS")
        ELSE [i \in 1..n |-> HexPairValue(h[2 * i - 1], h[2 * i])]

hexToBytes(hex) ==
    LET cleanHex == IF StartsWith0x(hex) THEN SubSeq(hex, 3, Len(hex)) ELSE hex
    IN  IF Len(cleanHex) % 2 # 0 THEN ThrowSeq("INVALID_ADDRESS")
        ELSE HexPairs(cleanHex)

\* /^[0-9a-fA-F]*$/ and even length, after an optional 0x
isValidHex(hex) ==
    LET cleanHex == IF StartsWith0x(hex) THEN SubSeq(hex, 3, Len(hex)) ELSE hex
    IN  /\ \A i \in 1..Len(cleanHex) : IsHexChar(cleanHex[i])
        /\ Len(cleanHex) % 2 = 0

\* a validation that does not look at the length
isValidAddress_anyLength(address) == isValidHex(address)

isValidAddress(address) ==
    LET cleanHex == IF StartsWith0x(address)
                    THEN SubSeq(address, 3, Len(address)) ELSE address
    IN  isValidHex(address) /\ Len(cleanHex) = ADDRESS_LENGTH * 2

parseAddress(address) ==
    IF ~isValidAddress(address) THEN ThrowSeq("INVALID_ADDRESS")
    ELSE hexToBytes(address)

(***************************************************************************)
(* crypto/hash and the Ed25519 library, idealised                          *)
(***************************************************************************)
\* hash(data) = sha3_256(data): 32 bytes, collision free
hash(data) == Sym([h |-> data], HASH_LENGTH)

\* ed.getPublicKey(privateKey): 32 bytes, a function of the private key
ed_getPublicKey(privateKey) == Sym([pub |-> privateKey], ADDRESS_LENGTH)

\* ed.sign(message, privateKey): 64 bytes, deterministic
ed_sign(message, privateKey) ==
    Sym([sk |-> privateKey, m |-> message], SIGNATURE_LENGTH)

\* ed.verify(signature, message, publicKey); the library throws on inputs
\* of a wrong length, which is the outcome "throw" here
ed_verify(signature, message, publicKey) ==
    IF Len(signature) # SIGNATURE_LENGTH \/ Len(publicKey) # ADDRESS_LENGTH
    THEN "throw"
    ELSE IF /\ IsSym(signature, SIGNATURE_LENGTH)
            /\ DOMAIN TermOf(signature) = {"sk", "m"}
            /\ TermOf(signature).m = message
            /\ publicKey = ed_getPublicKey(TermOf(signature).sk)
    THEN "true"
    ELSE "false"

(***************************************************************************)
(* crypto/keys: KeyPair                                                    *)
(***************************************************************************)
\* KeyPair.fromPrivateKey(privateKey)
KeyPair_fromPrivateKey(privateKey) ==
    IF Len(privateKey) # 32 THEN Throw("KEY_GENERATION_ERROR")
    ELSE [privateKey |-> privateKey, publicKey |-> ed_getPublicKey(privateKey)]

\* keyPair.sign(message)
KeyPair_sign(keyPair, message) == ed_sign(message, keyPair.privateKey)

\* verify that hands message and signature to the library in the order of
\* its own parameters
KeyPair_verify_swapped(publicKey, message, signature) ==
    ed_verify(message, signature, publicKey) = "true"

\* KeyPair.verify(publicKey, message, signature): never throws
KeyPair_verify(publicKey, message, signature) ==
    ed_verify(signature, message, publicKey) = "true"

(***************************************************************************)
(* transaction: canonical binary encoding                                  *)
(***************************************************************************)
\* encodeU64 with the byte order flag of setBigUint64 left out: big-endian
encodeU64_bigEndian(value) ==
    [i \in 1..8 |-> B(IF 9 - i <= Len(value) THEN value[9 - i] ELSE 0)]

\* DataView.setBigUint64(0, value, true): the value modulo 2^64 as 8
\* little-endian bytes
encodeU64(value) ==
    [i \in 1..8 |-> B(IF i <= Len(value) THEN value[i] ELSE 0)]

\* serializeForSigning that pushes the signature of the record
serializeForSigning_withSignature(tx) ==
    LET chainIdBytes == TextEncode(tx.chainId)
    IN  <<B(tx.txType)>>
        \o encodeU64(FromNat(Len(chainIdBytes))) \o chainIdBytes
        \o tx.from
        \o tx.to
        \o encodeU64(tx.amount)
        \o (IF tx.payload = NULL THEN <<B(0)>>
            ELSE <<B(1)>> \o encodeU64(FromNat(Len(tx.payload))) \o tx.payload)
        \o encodeU64(tx.nonce)
        \o encodeU64(tx.timestamp)
        \o tx.signature

serializeForSigning(tx) ==
    LET chainIdBytes == TextEncode(tx.chainId)
    IN  <<B(tx.txType)>>
        \o encodeU64(FromNat(Len(chainIdBytes))) \o chainIdBytes
        \o tx.from
        \o tx.to
        \o encodeU64(tx.amount)
        \o (IF tx.payload = NULL THEN <<B(0)>>
            ELSE <<B(1)>> \o encodeU64(FromNat(Len(tx.payload))) \o tx.payload)
        \o encodeU64(tx.nonce)
        \o encodeU64(tx.timestamp)
        \o Zeros(64)

\* serializeTransaction that pushes the timestamp before the nonce
serializeTransaction_timestampFirst(tx) ==
    LET chainIdBytes == TextEncode(tx.chainId)
    IN  <<B(tx.txType)>>
        \o encodeU64(FromNat(Len(chainIdBytes))) \o chainIdBytes
        \o tx.from
        \o tx.to
        \o encodeU64(tx.amount)
        \o (IF tx.payload = NULL THEN <<B(0)>>
            ELSE <<B(1)>> \o encodeU64(FromNat(Len(tx.payload))) \o tx.payload)
        \o encodeU64(tx.timestamp)
        \o encodeU64(tx.nonce)
        \o tx.signature

serializeTransaction(tx) ==
    LET chainIdBytes == TextEncode(tx.chainId)
    IN  <<B(tx.txType)>>
        \o encodeU64(FromNat(Len(chainIdBytes))) \o chainIdBytes
        \o tx.from
        \o tx.to
        \o encodeU64(tx.amount)
        \o (IF tx.payload = NULL THEN <<B(0)>>
            ELSE <<B(1)>> \o encodeU64(FromNat(Len(tx.payload))) \o tx.payload)
        \o encodeU64(tx.nonce)
        \o encodeU64(tx.timestamp)
        \o tx.signature

\* calculateFee with Math.floor in the place of Math.ceil
calculateFee_floor(tx) ==
    IF tx.txType = Stake \/ tx.txType = Unstake THEN STAKING_FEE
    ELSE IF tx.txType = SubmitProposal THEN STAKING_FEE
    ELSE IF tx.payload # NULL
         THEN BASE_FEE + (Len(tx.payload) \div 1024) * FEE_PER_KB_PAYLOAD
         ELSE BASE_FEE

\* the fee as a number; the code returns it as a bigint
calculateFee(tx) ==
    IF tx.txType = Stake \/ tx.txType = Unstake THEN STAKING_FEE
    ELSE IF tx.txType = SubmitProposal THEN STAKING_FEE
    ELSE IF tx.payload # NULL
         THEN BASE_FEE + ((Len(tx.payload) + 1023) \div 1024) * FEE_PER_KB_PAYLOAD
         ELSE BASE_FEE

calculateHash(tx) == bytesToHex(hash(serializeTransaction(tx)))

(***************************************************************************)
(* transaction: JSON wire form                                             *)
(***************************************************************************)
\* txTypeMap of transactionToJson
TxTypeName(txType) ==
    CASE txType = Transfer -> "transfer"
      [] txType = Stake -> "stake"
      [] txType = Unstake -> "unstake"
      [] txType = SubmitProposal -> "submit_proposal"
      [] txType = Vote -> "vote"
      [] OTHER -> "undefined"

transactionToJson(tx) ==
    [tx_type |-> TxTypeName(tx.txType),
     chain_id |-> tx.chainId,
     from |-> bytesToHex(tx.from),
     to |-> bytesToHex(tx.to),
     amount |-> bigintToString(tx.amount),
     payload |-> IF tx.payload # NULL THEN bytesToHex(tx.payload) ELSE NULL,
     nonce |-> bigintToString(tx.nonce),
     timestamp |-> bigintToString(tx.timestamp),
     signature |-> bytesToHex(tx.signature),
     hash |-> calculateHash(tx),
     fee |-> bigintToString(FromNat(calculateFee(tx)))]

\* the property names that every object literal inherits from
\* Object.prototype; txTypeMap[name] is defined for them although the
\* literal does not list them
ObjectPrototypeNames ==
    {"constructor", "toString", "valueOf", "hasOwnProperty", "isPrototypeOf",
     "propertyIsEnumerable", "toLocaleString", "__proto__"}

\* the txType of a record decoded from an inherited property name: not a
\* member of the enum
INHERITED_PROPERTY == 0 - 1

\* txTypeMap[json.tx_type] ?? TxType.Transfer of jsonToTransaction
TxTypeOfName(name) ==
    CASE name = "transfer" -> Transfer
      [] name = "stake" -> Stake
      [] name = "unstake" -> Unstake
      [] name = "submit_proposal" -> SubmitProposal
      [] name = "vote" -> Vote
      [] name \in ObjectPrototypeNames -> INHERITED_PROPERTY
      [] OTHER -> Transfer

\* json.payload ? hexToBytes(json.payload) : null; null and the empty
\* string are falsy
JsonPayloadToBytes(payload) ==
    IF payload = NULL \/ payload = <<>> THEN NULL ELSE hexToBytes(payload)

\* The fields are evaluated in the order of the object literal and the
\* first exception ends the call.
jsonToTransaction(json) ==
    LET from == hexToBytes(json.from)
        to == hexToBytes(json.to)
        amount == BigInt(json.amount)
        payload == JsonPayloadToBytes(json.payload)
        nonce == BigInt(json.nonce)
        timestamp == BigInt(json.timestamp)
        signature == hexToBytes(json.signature)
    IN  IF IsThrownSeq(from) THEN Throw("INVALID_ADDRESS")
        ELSE IF IsThrownSeq(to) THEN Throw("INVALID_ADDRESS")
        ELSE IF amount = BIGINT_SYNTAX_ERROR THEN Throw("SyntaxError")
        ELSE IF IsThrownSeq(payload) THEN Throw("INVALID_ADDRESS")
        ELSE IF nonce = BIGINT_SYNTAX_ERROR THEN Throw("SyntaxError")
        ELSE IF timestamp = BIGINT_SYNTAX_ERROR THEN Throw("SyntaxError")
        ELSE IF IsThrownSeq(signature) THEN Throw("INVALID_ADDRESS")
        ELSE [txType |-> TxTypeOfName(json.tx_type),
              chainId |-> json.chain_id,
              from |-> from,
              to |-> to,
              amount |-> amount,
              payload |-> payload,
              nonce |-> nonce,
              timestamp |-> timestamp,
              signature |-> signature]

(***************************************************************************)
(* JSON.stringify of the governance payloads                               *)
(***************************************************************************)
RECURSIVE JsonEscape(_)
\* the characters of a JSON string literal: the quote and the backslash are
\* escaped (control characters are outside the modelled alphabet)
JsonEscape(str) ==
    IF str = <<>> THEN <<>>
    ELSE IF Len(str) = 1
         THEN (IF str[1].c \in {34, 92} THEN <<Ch(92), str[1]>> ELSE <<str[1]>>)
    ELSE JsonEscape(SubSeq(str, 1, Len(str) \div 2))
         \o JsonEscape(SubSeq(str, Len(str) \div 2 + 1, Len(str)))

JsonString(str) == <<Ch(34)>> \o JsonEscape(str) \o <<Ch(34)>>

\* JSON.stringify of a non-negative integer number
JsonNumber(n) == bigintToString(FromNat(n))

\* a ParamChange value is a number, [num |-> n], or a string, [str |-> s]
JsonValue(v) ==
    IF DOMAIN v = {"num"} THEN JsonNumber(v.num) ELSE JsonString(v.str)

T_title == Str(<<123, 34, 116, 105, 116, 108, 101, 34, 58>>)   \* {"title":

\* ,"description":
T_description ==
    Str(<<44, 34, 100, 101, 115, 99, 114, 105, 112, 116, 105, 111, 110, 34, 58>>)

\* ,"changes":[
T_changes == Str(<<44, 34, 99, 104, 97, 110, 103, 101, 115, 34, 58, 91>>)

T_param == Str(<<123, 34, 112, 97, 114, 97, 109, 34, 58>>)   \* {"param":

T_value == Str(<<44, 34, 118, 97, 108, 117, 101, 34, 58>>)   \* ,"value":

\* {"proposal_id":
T_proposal_id ==
    Str(<<123, 34, 112, 114, 111, 112, 111, 115, 97, 108, 95, 105, 100, 34, 58>>)

\* ,"option":
T_option == Str(<<44, 34, 111, 112, 116, 105, 111, 110, 34, 58>>)

RECURSIVE JsonChanges(_)
\* the elements of the changes array, separated by commas
JsonChanges(changes) ==
    IF changes = <<>> THEN <<>>
    ELSE T_param \o JsonString(changes[1].param)
         \o T_value \o JsonValue(changes[1].value) \o <<Ch(125)>>
         \o (IF Len(changes) > 1 THEN <<Ch(44)>> ELSE <<>>)
         \o JsonChanges(Tail(changes))

\* JSON.stringify({title, description, changes})
StringifyProposal(title, description, changes) ==
    T_title \o JsonString(title)
    \o T_description \o JsonString(description)
    \o T_changes \o JsonChanges(changes) \o <<Ch(93), Ch(125)>>

\* JSON.stringify({proposal_id, option}) for a number proposal_id that is
\* an integer below 2^54: its shortest decimal form is the integer
StringifyVote(proposal_id, option) ==
    T_proposal_id \o bigintToString(proposal_id)
    \o T_option \o JsonString(option) \o <<Ch(125)>>

(***************************************************************************)
(* transaction: TransactionBuilder                                         *)
(*                                                                         *)
(* A builder is [keyPair, defaultChainId].  An options object is a record  *)
(* that has a field exactly when the caller supplied it.  A supplied       *)
(* payload option is [str |-> string] or [bytes |-> byte string].  now is  *)
(* the value of getCurrentTimestamp() during the call.                     *)
(***************************************************************************)
Has(options, field) == field \in DOMAIN options

\* options.chainId ?? this.defaultChainId
ChainIdOf(builder, options) ==
    IF Has(options, "chainId") THEN options.chainId ELSE builder.defaultChainId

\* options.timestamp ?? getCurrentTimestamp()
TimestampOf(options, now) ==
    IF Has(options, "timestamp") THEN options.timestamp ELSE now

\* undefined and the empty string are falsy; a Uint8Array never is
normalizePayload(options) ==
    IF ~Has(options, "payload") THEN NULL
    ELSE IF DOMAIN options.payload = {"str"}
         THEN (IF options.payload.str = <<>> THEN NULL
               ELSE TextEncode(options.payload.str))
    ELSE options.payload.bytes

\* a size check that rejects a payload of exactly MAX_PAYLOAD_SIZE bytes
validatePayload_atLeast(payload) ==
    payload # NULL /\ Len(payload) >= MAX_PAYLOAD_SIZE

\* TRUE when validatePayload throws
validatePayload(payload) == payload # NULL /\ Len(payload) > MAX_PAYLOAD_SIZE

buildTransfer(builder, options, now) ==
    LET payload == normalizePayload(options)
        to == parseAddress(options.to)
    IN  IF validatePayload(payload) THEN Throw("INVALID_TRANSACTION")
        ELSE IF IsThrownSeq(to) THEN Throw("INVALID_ADDRESS")
        ELSE [txType |-> Transfer,
              chainId |-> ChainIdOf(builder, options),
              from |-> builder.keyPair.publicKey,
              to |-> to,
              amount |-> options.amount,
              payload |-> payload,
              nonce |-> options.nonce,
              timestamp |-> TimestampOf(options, now),
              signature |-> Zeros(64)]

buildStake(builder, options, now) ==
    [txType |-> Stake,
     chainId |-> ChainIdOf(builder, options),
     from |-> builder.keyPair.publicKey,
     to |-> builder.keyPair.publicKey,
     amount |-> options.amount,
     payload |-> NULL,
     nonce |-> options.nonce,
     timestamp |-> TimestampOf(options, now),
     signature |-> Zeros(64)]

buildUnstake(builder, options, now) ==
    [txType |-> Unstake,
     chainId |-> ChainIdOf(builder, options),
     from |-> builder.keyPair.publicKey,
     to |-> builder.keyPair.publicKey,
     amount |-> options.amount,
     payload |-> NULL,
     nonce |-> options.nonce,
     timestamp |-> TimestampOf(options, now),
     signature |-> Zeros(64)]

buildSubmitProposal(builder, options, now) ==
    LET payloadBytes ==
            TextEncode(StringifyProposal(options.title, options.description,
                                         options.changes))
    IN  IF validatePayload(payloadBytes) THEN Throw("INVALID_TRANSACTION")
        ELSE [txType |-> SubmitProposal,
              chainId |-> ChainIdOf(builder, options),
              from |-> builder.keyPair.publicKey,
              to |-> builder.keyPair.publicKey,
              amount |-> options.deposit,
              payload |-> payloadBytes,
              nonce |-> options.nonce,
              timestamp |-> TimestampOf(options, now),
              signature |-> Zeros(64)]

buildVote(builder, options, now) ==
    LET payloadBytes ==
            TextEncode(StringifyVote(Number(options.proposalId), options.option))
    IN  [txType |-> Vote,
         chainId |-> ChainIdOf(builder, options),
         from |-> builder.keyPair.publicKey,
         to |-> builder.keyPair.publicKey,
         amount |-> <<>>,
         payload |-> payloadBytes,
         nonce |-> options.nonce,
         timestamp |-> TimestampOf(options, now),
         signature |-> Zeros(64)]

\* sign that stores the signature in its argument and returns the argument
TransactionBuilder_sign_inPlace(builder, tx) ==
    LET bytesToSign == serializeForSigning(tx)
        signature == KeyPair_sign(builder.keyPair, bytesToSign)
    IN  [tx |-> [tx EXCEPT !.signature = signature],
         ret |-> [tx EXCEPT !.signature = signature]]

\* builder.sign(tx): "ret" is the returned record, "tx" is the argument
\* object as the call leaves it
TransactionBuilder_sign(builder, tx) ==
    LET bytesToSign == serializeForSigning(tx)
        signature == KeyPair_sign(builder.keyPair, bytesToSign)
    IN  [tx |-> tx, ret |-> [tx EXCEPT !.signature = signature]]

(***************************************************************************)
(* Bounds and the inputs of the operations                                 *)
(***************************************************************************)
NumKeys == 2
MaxNonce == 1

Keys == 1..NumKeys

PrivateKeyOf(k) == Fill(32, k)

KeyPairOf(k) == KeyPair_fromPrivateKey(PrivateKeyOf(k))

\* "tessera-testnet-1"
TESTNET ==
    Str(<<116, 101, 115, 115, 101, 114, 97, 45, 116, 101, 115, 116, 110, 101,
          116, 45, 49>>)

\* new TransactionBuilder(keyPair, defaultChainId); the builder of key 1 has
\* a default chain id, the others use the default of the constructor, ''
BuilderOf(k) ==
    [keyPair |-> KeyPairOf(k),
     defaultChainId |-> IF k = 1 THEN TESTNET ELSE <<>>]

NONE == [none |-> TRUE]

Nonces == {FromNat(n) : n \in 1..MaxNonce}

\* "Hello"
HELLO == Str(<<72, 101, 108, 108, 111>>)

\* a chain id with a character outside ASCII: "é"
CHAIN_E_ACUTE == Str(<<233>>)

\* '0'.repeat(64)
ZERO_ADDRESS == [i \in 1..64 |-> Ch(48)]

\* 1_000_000n
MILLION == FromNat(1000000)

NowValues == {FromNat(1699876543)}

\* an address that is no address: "0x"
BAD_ADDRESS == Str(<<48, 120>>)

\* payload options a caller supplies: '', 'Hello', new Uint8Array(0)
PayloadOptions == {[str |-> <<>>], [str |-> HELLO], [bytes |-> <<>>]}

\* An optional field is a field of the record exactly when the caller gave
\* it: the caller gives the nonce alone, or the nonce, a chain id and the
\* timestamp 0n; a transfer comes with and without a payload.
TransferOptionsSet ==
    {[to |-> to, amount |-> MILLION, nonce |-> n] :
        to \in {ZERO_ADDRESS, BAD_ADDRESS}, n \in Nonces}
    \cup {[to |-> to, amount |-> MILLION, nonce |-> n, payload |-> p] :
        to \in {ZERO_ADDRESS, BAD_ADDRESS}, n \in Nonces, p \in PayloadOptions}
    \cup {[to |-> to, amount |-> MILLION, nonce |-> n,
           chainId |-> CHAIN_E_ACUTE, timestamp |-> <<>>] :
        to \in {ZERO_ADDRESS, BAD_ADDRESS}, n \in Nonces}
    \cup {[to |-> to, amount |-> MILLION, nonce |-> n, payload |-> p,
           chainId |-> CHAIN_E_ACUTE, timestamp |-> <<>>] :
        to \in {ZERO_ADDRESS, BAD_ADDRESS}, n \in Nonces, p \in PayloadOptions}

StakeOptionsSet ==
    {[amount |-> MILLION, nonce |-> n] : n \in Nonces}
    \cup {[amount |-> MILLION, nonce |-> n,
           chainId |-> CHAIN_E_ACUTE, timestamp |-> <<>>] : n \in Nonces}

\* "T"
TITLE == Str(<<84>>)

\* a description with a quote in it: a"b
DESCRIPTION == Str(<<97, 34, 98>>)

\* "p"
PARAM == Str(<<112>>)

\* changes: none, or one change of "p" to 150
ChangesOptions == {<<>>, <<[param |-> PARAM, value |-> [num |-> 150]]>>}

SubmitProposalOptionsSet ==
    {[title |-> TITLE, description |-> DESCRIPTION, changes |-> ch,
      deposit |-> MILLION, nonce |-> n] :
        ch \in ChangesOptions, n \in Nonces}
    \cup {[title |-> TITLE, description |-> DESCRIPTION, changes |-> ch,
           deposit |-> MILLION, nonce |-> n,
           chainId |-> CHAIN_E_ACUTE, timestamp |-> <<>>] :
        ch \in ChangesOptions, n \in Nonces}

\* VoteOption.Yes = 'yes'
VOTE_YES == Str(<<121, 101, 115>>)

VoteOptionsSet ==
    {[proposalId |-> id, option |-> VOTE_YES, nonce |-> n] :
        id \in {FromNat(1), TWO_POW_53_PLUS_1}, n \in Nonces}
    \cup {[proposalId |-> FromNat(1), option |-> VOTE_YES, nonce |-> n,
           chainId |-> CHAIN_E_ACUTE, timestamp |-> <<>>] : n \in Nonces}

\* Records that a caller holds without having built them with a builder of
\* the model: the Transaction interface is plain data.
SamplePayloads == {NULL, <<>>, Zeros(1023), Zeros(1024), Zeros(1025)}

SampleSignatures == {Zeros(64), Fill(64, 171)}

SampleRecords ==
    {[txType |-> k,
      chainId |-> CHAIN_E_ACUTE,
      from |-> Fill(32, 17),
      to |-> Fill(32, 34),
      amount |-> U64_MAX,
      payload |-> p,
      nonce |-> FromNat(1),
      timestamp |-> FromNat(1699876543),
      signature |-> Fill(64, 171)] :
        k \in TxType, p \in SamplePayloads}

\* the values by which a second record differs from the first in one field
VaryAmounts == {MILLION, U64_MAX, TWO_POW_64}

VaryNonces == {<<>>, FromNat(2)}

VaryPayloads == {NULL, <<>>, <<B(1)>>}

(***************************************************************************)
(* The state machine of the codec and the builder                          *)
(*  tx   the record the caller holds, NONE while the caller holds none     *)
(*  op   the operation called last                                         *)
(*  who  the key of the builder that op was called on, 0 if none           *)
(*  arg  the argument object of op as the call left it, where the          *)
(*       operation has one besides tx                                      *)
(*  ret  what op returned or threw                                         *)
(* and, for the state machines of the wallet further down,                 *)
(*  client      the client the wallet is bound to (this.client), NONE for  *)
(*              null                                                       *)
(*  calls       the calls of the wallet's asynchronous methods that the    *)
(*              callers have made, each with its position                  *)
(*  chainNonce  the nonce of the wallet's account at the node              *)
(*  clock       Date.now(), in milliseconds                                *)
(***************************************************************************)
VARIABLES tx, op, who, arg, ret, client, calls, chainNonce, clock

vars == <<tx, op, who, arg, ret, client, calls, chainNonce, clock>>

walletVars == <<client, calls, chainNonce, clock>>

\* no wallet has been created
NoWallet ==
    /\ client = NONE
    /\ calls = <<>>
    /\ chainNonce = 0
    /\ clock = 0

Init ==
    /\ tx \in SampleRecords \cup {NONE}
    /\ op = "init"
    /\ who = 0
    /\ arg = NONE
    /\ ret = NONE
    /\ NoWallet

\* a caller that holds no record calls a build method with options and
\* keeps what the method returns
Built(k, options, r) ==
    /\ tx = NONE
    /\ who' = k
    /\ arg' = options
    /\ ret' = r
    /\ tx' = IF IsThrown(r) THEN tx ELSE r
    /\ UNCHANGED walletVars

BuildTransfer ==
    \E k \in Keys, o \in TransferOptionsSet, now \in NowValues :
        /\ op' = "buildTransfer"
        /\ Built(k, o, buildTransfer(BuilderOf(k), o, now))

BuildStake ==
    \E k \in Keys, o \in StakeOptionsSet, now \in NowValues :
        /\ op' = "buildStake"
        /\ Built(k, o, buildStake(BuilderOf(k), o, now))

BuildUnstake ==
    \E k \in Keys, o \in StakeOptionsSet, now \in NowValues :
        /\ op' = "buildUnstake"
        /\ Built(k, o, buildUnstake(BuilderOf(k), o, now))

BuildSubmitProposal ==
    \E k \in Keys, o \in SubmitProposalOptionsSet, now \in NowValues :
        /\ op' = "buildSubmitProposal"
        /\ Built(k, o, buildSubmitProposal(BuilderOf(k), o, now))

BuildVote ==
    \E k \in Keys, o \in VoteOptionsSet, now \in NowValues :
        /\ op' = "buildVote"
        /\ Built(k, o, buildVote(BuilderOf(k), o, now))

\* builder.sign(tx); the caller goes on with the signed record
Sign ==
    \E k \in Keys :
        LET r == TransactionBuilder_sign(BuilderOf(k), tx)
        IN  /\ tx # NONE
            /\ op' = "sign"
            /\ who' = k
            /\ arg' = r.tx
            /\ ret' = r.ret
            /\ tx' = r.ret
            /\ UNCHANGED walletVars

\* a function of the module is called on the record the caller holds, with
\* a besides, and returns r; the record stays as it is
Returned(a, r) ==
    /\ tx # NONE
    /\ who' = 0
    /\ arg' = a
    /\ ret' = r
    /\ tx' = tx
    /\ UNCHANGED walletVars

SerializeForSigning ==
    /\ op' = "serializeForSigning"
    /\ Returned(NONE, serializeForSigning(tx))

SerializeTransaction ==
    /\ op' = "serializeTransaction"
    /\ Returned(NONE, serializeTransaction(tx))

CalculateFee ==
    /\ op' = "calculateFee"
    /\ Returned(NONE, calculateFee(tx))

CalculateHash ==
    /\ op' = "calculateHash"
    /\ Returned(NONE, calculateHash(tx))

ToJson ==
    /\ op' = "transactionToJson"
    /\ Returned(NONE, transactionToJson(tx))

\* the JSON that transactionToJson returned is decoded again
FromJson ==
    /\ op = "transactionToJson"
    /\ op' = "jsonToTransaction"
    /\ Returned(ret, jsonToTransaction(ret))

\* the tx_type strings of a TransactionJson that reaches jsonToTransaction:
\* the five wire names, the empty string, names the map does not list, and
\* names that every object has
WireNames == {"transfer", "stake", "unstake", "submit_proposal", "vote"}

TxTypeStrings == WireNames \cup {"", "Transfer", "burn", "toString", "constructor"}

\* the JSON that transactionToJson returned is decoded with another tx_type
FromJsonTxType ==
    \E name \in TxTypeStrings :
        /\ op = "transactionToJson"
        /\ op' = "jsonToTransaction.tx_type"
        /\ Returned([ret EXCEPT !.tx_type = name],
                    jsonToTransaction([ret EXCEPT !.tx_type = name]))

\* serializeForSigning of tx and of a record that differs from it in the
\* signature only
SerializeForSigningPair ==
    \E sg \in SampleSignatures :
        /\ tx # NONE
        /\ tx.signature # sg
        /\ op' = "serializeForSigningPair"
        /\ Returned([tx EXCEPT !.signature = sg],
                    <<serializeForSigning(tx),
                      serializeForSigning([tx EXCEPT !.signature = sg])>>)

\* the records that differ from t in exactly one of amount, nonce, payload
Variants(t) ==
    ({[t EXCEPT !.amount = a] : a \in VaryAmounts}
     \cup {[t EXCEPT !.nonce = n] : n \in VaryNonces}
     \cup {[t EXCEPT !.payload = p] : p \in VaryPayloads}) \ {t}

\* calculateHash of tx and of a record that differs from it in one field
CalculateHashPair ==
    /\ tx # NONE
    /\ \E other \in Variants(tx) :
        /\ op' = "calculateHashPair"
        /\ Returned(other, <<calculateHash(tx), calculateHash(other)>>)

Next ==
    \/ BuildTransfer
    \/ BuildStake
    \/ BuildUnstake
    \/ BuildSubmitProposal
    \/ BuildVote
    \/ Sign
    \/ SerializeForSigning
    \/ SerializeTransaction
    \/ CalculateFee
    \/ CalculateHash
    \/ ToJson
    \/ FromJson
    \/ FromJsonTxType
    \/ SerializeForSigningPair
    \/ CalculateHashPair

Spec == Init /\ [][Next]_vars

(***************************************************************************)
(* The state machine of buildTransfer and buildSubmitProposal at the       *)
(* limits of their inputs: payloads around MAX_PAYLOAD_SIZE bytes and      *)
(* recipient strings around the form of an address.  The variables are     *)
(* those of the builder's state machine.                                   *)
(***************************************************************************)
\* the string of n characters with code point cp
Repeat(cp, n) == [i \in 1..n |-> Ch(cp)]

\* byte arrays, ASCII strings and strings of "é" (two bytes each in UTF-8)
EdgePayloads ==
    {[bytes |-> Zeros(n)] :
        n \in {MAX_PAYLOAD_SIZE - 1, MAX_PAYLOAD_SIZE, MAX_PAYLOAD_SIZE + 1}}
    \cup {[str |-> Repeat(97, n)] :
        n \in {MAX_PAYLOAD_SIZE, MAX_PAYLOAD_SIZE + 1}}
    \cup {[str |-> Repeat(233, n)] :
        n \in {MAX_PAYLOAD_SIZE \div 2, MAX_PAYLOAD_SIZE \div 2 + 1}}

\* 'aB'.repeat(32)
HEX_AB_64 == [i \in 1..64 |-> IF i % 2 = 1 THEN Ch(97) ELSE Ch(66)]

\* recipient strings: addresses with and without 0x, and strings that miss
\* the form by the prefix, the length or one character
EdgeAddresses ==
    {ZERO_ADDRESS,
     HEX_AB_64,
     Str(<<48, 120>>) \o HEX_AB_64,
     Str(<<48, 88>>) \o HEX_AB_64,
     Str(<<48, 120>>) \o SubSeq(HEX_AB_64, 1, 62),
     SubSeq(HEX_AB_64, 1, 63),
     HEX_AB_64 \o Str(<<97>>),
     HEX_AB_64 \o Str(<<97, 66>>),
     HEX_AB_64 \o Str(<<10>>),
     [HEX_AB_64 EXCEPT ![64] = Ch(103)],
     [HEX_AB_64 EXCEPT ![1] = Ch(32)],
     Str(<<>>),
     BAD_ADDRESS}

\* amounts of a transfer: 0n, 1_000_000n and 2n ** 64n
EdgeAmounts == {<<>>, MILLION, TWO_POW_64}

TransferEdgeOptions ==
    {[to |-> to, amount |-> a, nonce |-> n] :
        to \in EdgeAddresses, a \in EdgeAmounts, n \in Nonces}
    \cup {[to |-> to, amount |-> a, nonce |-> n, payload |-> p] :
        to \in {ZERO_ADDRESS, BAD_ADDRESS}, a \in EdgeAmounts, n \in Nonces,
        p \in EdgePayloads}

\* descriptions with which the JSON text of the proposal has
\* MAX_PAYLOAD_SIZE characters, and one more
EdgeDescriptions ==
    {Repeat(97, n - Len(StringifyProposal(TITLE, <<>>, <<>>))) :
        n \in {MAX_PAYLOAD_SIZE, MAX_PAYLOAD_SIZE + 1}}

SubmitProposalEdgeOptions ==
    {[title |-> TITLE, description |-> d, changes |-> <<>>,
      deposit |-> a, nonce |-> n] :
        d \in EdgeDescriptions, a \in EdgeAmounts, n \in Nonces}

\* the caller holds no record and makes one call
InitBuild ==
    /\ tx = NONE
    /\ op = "init"
    /\ who = 0
    /\ arg = NONE
    /\ ret = NONE
    /\ NoWallet

BuildTransferEdge ==
    \E k \in Keys, o \in TransferEdgeOptions, now \in NowValues :
        /\ op = "init"
        /\ op' = "buildTransfer"
        /\ Built(k, o, buildTransfer(BuilderOf(k), o, now))

BuildSubmitProposalEdge ==
    \E k \in Keys, o \in SubmitProposalEdgeOptions, now \in NowValues :
        /\ op = "init"
        /\ op' = "buildSubmitProposal"
        /\ Built(k, o, buildSubmitProposal(BuilderOf(k), o, now))

\* the wire JSON of a record, as it is and with a from of one byte ("ab")
\* or with an empty signature
EdgeJson(t) ==
    {transactionToJson(t),
     [transactionToJson(t) EXCEPT !.from = Str(<<97, 98>>)],
     [transactionToJson(t) EXCEPT !.signature = <<>>]}

\* jsonToTransaction(json) of a JSON object made from the record built, if
\* that has no payload
FromJsonEdge ==
    /\ op \in {"buildTransfer", "buildSubmitProposal"}
    /\ tx # NONE
    /\ tx.payload = NULL
    /\ \E json \in EdgeJson(tx) :
          /\ op' = "jsonToTransaction"
          /\ arg' = json
          /\ ret' = jsonToTransaction(json)
    /\ UNCHANGED <<tx, who>>
    /\ UNCHANGED walletVars

NextBuild ==
    \/ BuildTransferEdge
    \/ BuildSubmitProposalEdge
    \/ FromJsonEdge

SpecBuild == InitBuild /\ [][NextBuild]_vars

(***************************************************************************)
(* Properties of the codec and the builder                                 *)
(***************************************************************************)
\* the number that a sequence of bytes denotes when read little-endian
LittleEndianValue(bytes) == Normalize([i \in 1..Len(bytes) |-> bytes[i].b])

\* the number of bytes of the UTF-8 encoding of a code point
Utf8Width(cp) ==
    IF cp < 128 THEN 1 ELSE IF cp < 2048 THEN 2 ELSE IF cp < 65536 THEN 3 ELSE 4

RECURSIVE Utf8Length(_)
Utf8Length(str) ==
    IF str = <<>> THEN 0
    ELSE IF Len(str) = 1 THEN Utf8Width(str[1].c)
    ELSE Utf8Length(SubSeq(str, 1, Len(str) \div 2))
         + Utf8Length(SubSeq(str, Len(str) \div 2 + 1, Len(str)))

\* a record whose fields have the widths of the data model
ValidRecord(t) ==
    /\ t.txType \in TxType
    /\ Len(t.from) = 32
    /\ Len(t.to) = 32
    /\ Len(t.signature) = 64
    /\ InU64(t.amount)
    /\ InU64(t.nonce)
    /\ InU64(t.timestamp)

\* the bytes of s from position from (counted from 0) on, n of them
Slice(s, from, n) == SubSeq(s, from + 1, from + n)

\* C1, the layout as the claim lists it, read off the bytes by position
LayoutOf(t, bytes) ==
    LET c == Utf8Length(t.chainId)
        p == IF t.payload = NULL THEN 0 ELSE 8 + Len(t.payload)
    IN  /\ Len(bytes) = 162 + c + p
        /\ bytes[1] = B(t.txType)
        /\ LittleEndianValue(Slice(bytes, 1, 8)) = FromNat(c)
        /\ Slice(bytes, 9, c) = TextEncode(t.chainId)
        /\ Slice(bytes, 9 + c, 32) = t.from
        /\ Slice(bytes, 41 + c, 32) = t.to
        /\ LittleEndianValue(Slice(bytes, 73 + c, 8)) = t.amount
        /\ IF t.payload = NULL
           THEN bytes[82 + c] = B(0)
           ELSE /\ bytes[82 + c] = B(1)
                /\ LittleEndianValue(Slice(bytes, 82 + c, 8)) = FromNat(Len(t.payload))
                /\ Slice(bytes, 90 + c, Len(t.payload)) = t.payload
        /\ LittleEndianValue(Slice(bytes, 82 + c + p, 8)) = t.nonce
        /\ LittleEndianValue(Slice(bytes, 90 + c + p, 8)) = t.timestamp
        /\ Slice(bytes, 98 + c + p, 64) = Zeros(64)

\* C1: for every record with fields of the declared widths,
\* serializeForSigning returns the kind ordinal, the length-prefixed UTF-8
\* chain id, from, to, the amount, the payload option, the nonce, the
\* timestamp and 64 zero bytes, in this order, the integers as 8
\* little-endian bytes; 162 + |chainId| bytes without a payload and
\* 170 + |chainId| + |payload| bytes with one.
C1_SigningLayout ==
    (op = "serializeForSigning" /\ ValidRecord(tx)) => LayoutOf(tx, ret)

C1_Witness ==
    /\ op = "serializeForSigning"
    /\ ValidRecord(tx)
    /\ tx.payload # NULL
    /\ Len(tx.payload) = 5
    /\ tx.chainId = CHAIN_E_ACUTE
    /\ Len(ret) = 177

\* C2: serializeForSigning does not depend on the signature field: two
\* records that differ in the signature only give the same bytes, ending
\* in 64 zero bytes; and sign applied to a record that already carries a
\* signature returns the signature it returns for the unsigned record.
C2_SignatureNotSigned ==
    /\ op = "serializeForSigningPair" =>
          /\ ret[1] = ret[2]
          /\ Slice(ret[1], Len(ret[1]) - 64, 64) = Zeros(64)
    /\ op = "sign" =>
          ret.signature =
              KeyPair_sign(KeyPairOf(who),
                           serializeForSigning([arg EXCEPT !.signature = Zeros(64)]))

C2_Witness ==
    /\ op = "sign"
    /\ IsSym(arg.signature, 64)
    /\ arg.signature = ret.signature

\* C3: serializeTransaction(tx) is serializeForSigning(tx) with the final 64
\* zero bytes replaced by tx.signature: same length, same earlier bytes,
\* and the same bytes altogether when the signature is all zero.
C3_FullVersusSigning ==
    (op = "serializeTransaction" /\ Len(tx.signature) = 64) =>
        LET s == serializeForSigning(tx)
            n == Len(s) - 64
        IN  /\ Len(ret) = Len(s)
            /\ Slice(ret, 0, n) = Slice(s, 0, n)
            /\ Slice(s, n, 64) = Zeros(64)
            /\ Slice(ret, n, 64) = tx.signature
            /\ (tx.signature = Zeros(64) => ret = s)

C3_Witness ==
    /\ op = "serializeTransaction"
    /\ IsSym(tx.signature, 64)
    /\ tx.payload # NULL
    /\ ret # serializeForSigning(tx)

\* C4: a call of sign leaves its argument as it was and returns a record
\* that equals the argument in every field but the signature, which is
\* the signature of serializeForSigning(argument) under the builder's key.
C4_SignFrame ==
    [][op' = "sign" =>
          /\ arg' = tx
          /\ \A f \in DOMAIN tx \ {"signature"} : ret'[f] = tx[f]
          /\ DOMAIN ret' = DOMAIN tx
          /\ ret'.signature = KeyPair_sign(KeyPairOf(who'), serializeForSigning(tx))]_vars

C4_Witness ==
    /\ op = "sign"
    /\ who = 2
    /\ arg.signature = Zeros(64)
    /\ IsSym(ret.signature, 64)

BuildOps ==
    {"buildTransfer", "buildStake", "buildUnstake", "buildSubmitProposal", "buildVote"}

\* C5: in every record that a build method or sign returns, from is the
\* public key of the builder's key, so the signature that sign returns
\* verifies against the record's own from field.
C5_FromIsSigner ==
    /\ (op \in BuildOps /\ ~IsThrown(ret)) => ret.from = KeyPairOf(who).publicKey
    /\ op = "sign" =>
          /\ ret.from = KeyPairOf(who).publicKey
          /\ KeyPair_verify(ret.from, serializeForSigning(ret), ret.signature)

\* C6: jsonToTransaction(transactionToJson(tx)) equals tx in every field,
\* for every record with fields of the declared widths, whether its
\* payload is absent, empty or not empty.
C6_JsonRoundTrip ==
    (op = "jsonToTransaction" /\ ValidRecord(tx)) => ret = tx

\* C7: two calls of calculateHash on one record return the same string of
\* 64 hex characters, and two records that differ in exactly one of
\* amount, nonce and payload have different hashes.
C7_HashFieldSensitive ==
    /\ op = "calculateHash" => (Len(ret) = 64 /\ ret = calculateHash(tx))
    /\ op = "calculateHashPair" => ret[1] # ret[2]

\* ceil(len / 1024): the least n with n * 1024 >= len
KilobytesCeil(len) == CHOOSE n \in 0..len : n * 1024 >= len /\ (n - 1) * 1024 < len

\* C8: the fee is 10000 for Stake, Unstake and SubmitProposal whatever the
\* amount and the payload, and 1000 + ceil(L / 1024) * 100 for Transfer and
\* Vote, L being the payload length, 0 without a payload.
C8_Fee ==
    op = "calculateFee" =>
        IF tx.txType \in {Stake, Unstake, SubmitProposal}
        THEN ret = 10000
        ELSE ret = 1000 + KilobytesCeil(IF tx.payload = NULL THEN 0 ELSE Len(tx.payload)) * 100

C8_Witness ==
    /\ op = "calculateFee"
    /\ tx.txType = Vote
    /\ tx.payload # NULL
    /\ Len(tx.payload) = 1025
    /\ ret = 1200

(***************************************************************************)
(* crypto/hash: merkleRoot                                                 *)
(***************************************************************************)
\* a pass that promotes the last element of an odd level unhashed
NextLevel_promoteOdd(currentLevel) ==
    [j \in 1..((Len(currentLevel) + 1) \div 2) |->
        IF 2 * j <= Len(currentLevel)
        THEN hash(currentLevel[2 * j - 1] \o currentLevel[2 * j])
        ELSE currentLevel[2 * j - 1]]

\* a pass that hashes the last element of an odd level alone
NextLevel_hashAlone(currentLevel) ==
    [j \in 1..((Len(currentLevel) + 1) \div 2) |->
        IF 2 * j <= Len(currentLevel)
        THEN hash(currentLevel[2 * j - 1] \o currentLevel[2 * j])
        ELSE hash(currentLevel[2 * j - 1])]

\* one pass of the for loop: the level above currentLevel; an index past
\* the end reads undefined, which is falsy, so the last element of an odd
\* level is paired with itself
NextLevel(currentLevel) ==
    [j \in 1..((Len(currentLevel) + 1) \div 2) |->
        LET left == currentLevel[2 * j - 1]
            right == IF 2 * j <= Len(currentLevel) THEN currentLevel[2 * j] ELSE left
        IN  hash(left \o right)]

RECURSIVE MerkleLoop(_)
\* while (currentLevel.length > 1) ...; return currentLevel[0]
MerkleLoop(currentLevel) ==
    IF Len(currentLevel) > 1 THEN MerkleLoop(NextLevel(currentLevel))
    ELSE currentLevel[1]

merkleRoot(hashes) ==
    IF Len(hashes) = 0 THEN hash(<<>>)
    ELSE IF Len(hashes) = 1 THEN hashes[1]
    ELSE MerkleLoop(hashes)

(***************************************************************************)
(* The state machine of the hashing and signing primitives                 *)
(*  who  0 for a caller of merkleRoot; else the key of the key pair that   *)
(*       signs and, after KeyPair.verify, the key whose public key was     *)
(*       given to verify                                                   *)
(*  arg  the list of digests; the message to sign; after KeyPair.verify    *)
(*       the signer, the signed message and the message given to verify    *)
(*  ret  what op returned                                                  *)
(*  tx   not used: NONE                                                    *)
(***************************************************************************)
NumLeaves == 3
MaxHashes == 5
MaxMessageLength == 2

\* the digests that the lists are made of
Leaves == {hash(<<B(n)>>) : n \in 1..NumLeaves}

HashLists == UNION {[1..n -> Leaves] : n \in 0..MaxHashes}

\* the messages that are signed: the byte strings of bytes 0 and 1
Messages == UNION {[1..n -> {B(0), B(1)}] : n \in 0..MaxMessageLength}

\* the caller holds a list of digests (who = 0) or a key pair and a message
InitCrypto ==
    /\ tx = NONE
    /\ op = "init"
    /\ ret = NONE
    /\ \/ who = 0 /\ arg \in HashLists
       \/ who \in Keys /\ arg \in Messages
    /\ NoWallet

\* merkleRoot(hashes) of the list the caller holds
MerkleRoot ==
    /\ who = 0
    /\ op' = "merkleRoot"
    /\ ret' = merkleRoot(arg)
    /\ UNCHANGED <<tx, who, arg>>
    /\ UNCHANGED walletVars

\* keyPair.sign(message) with the key pair and the message the caller holds
KeyPairSign ==
    /\ who \in Keys
    /\ op \in {"init", "KeyPair.sign"}
    /\ op' = "KeyPair.sign"
    /\ ret' = KeyPair_sign(KeyPairOf(who), arg)
    /\ UNCHANGED <<tx, who, arg>>
    /\ UNCHANGED walletVars

\* KeyPair.verify(publicKey, message, signature) with the signature that
\* sign returned, the public key of key k and a message of the caller
KeyPairVerify ==
    /\ op = "KeyPair.sign"
    /\ \E k \in Keys, message \in Messages :
        /\ op' = "KeyPair.verify"
        /\ who' = k
        /\ arg' = [signer |-> who, signed |-> arg, message |-> message]
        /\ ret' = KeyPair_verify(KeyPairOf(k).publicKey, message, ret)
        /\ tx' = tx
        /\ UNCHANGED walletVars

NextCrypto ==
    \/ MerkleRoot
    \/ KeyPairSign
    \/ KeyPairVerify

SpecCrypto == InitCrypto /\ [][NextCrypto]_vars

(***************************************************************************)
(* crypto/keys: the byte arrays of a KeyPair                               *)
(*                                                                         *)
(* A Uint8Array is an object that several holders can refer to and write   *)
(* to.  Here a reference is a number and the heap gives the bytes of each  *)
(* array.  The KeyPair keeps references: fromPrivateKey (and fromSeed,     *)
(* which calls it) stores the array it was given, not a copy, and the      *)
(* getter publicKey returns the array of the KeyPair, not a copy.          *)
(*  who   the key the caller has chosen                                    *)
(*  arg   the heap: <<the bytes of array 1, the bytes of array 2>>         *)
(*  tx    the KeyPair: the references of its privateKey and its _publicKey *)
(*  ret   the references that the caller holds                             *)
(*  op    the last operation                                               *)
(***************************************************************************)
\* KeyPair.fromPrivateKey(privateKey) for the array at the reference
\* privateKey: the heap with the new public key, and the new KeyPair
KeyPair_fromPrivateKeyRef(heap, privateKey) ==
    [heap |-> Append(heap, ed_getPublicKey(heap[privateKey])),
     keyPair |-> [privateKey |-> privateKey, publicKey |-> Len(heap) + 1]]

\* keyPair.publicKey
KeyPair_publicKeyRef(keyPair) == keyPair.publicKey

\* the from and to of the record that buildStake returns
buildStake_fromToRef(keyPair) ==
    [from |-> KeyPair_publicKeyRef(keyPair), to |-> KeyPair_publicKeyRef(keyPair)]

\* the places of an array that the caller writes to, and what it writes
WriteIndices == {1, 32}

WriteValues == {B(0), B(255)}

\* the caller has made array 1 with the bytes of a private key and has
\* passed it to fromPrivateKey
InitKeys ==
    /\ op = "init"
    /\ who \in Keys
    /\ arg = KeyPair_fromPrivateKeyRef(<<PrivateKeyOf(who)>>, 1).heap
    /\ tx = KeyPair_fromPrivateKeyRef(<<PrivateKeyOf(who)>>, 1).keyPair
    /\ ret = {1}
    /\ NoWallet

\* the caller reads keyPair.publicKey
PublicKey ==
    /\ op' = "publicKey"
    /\ ret' = ret \cup {KeyPair_publicKeyRef(tx)}
    /\ UNCHANGED <<tx, who, arg>>
    /\ UNCHANGED walletVars

\* the caller builds a stake record with a builder of the KeyPair
StakeRecord ==
    /\ op' = "buildStake"
    /\ ret' = ret \cup {buildStake_fromToRef(tx).from, buildStake_fromToRef(tx).to}
    /\ UNCHANGED <<tx, who, arg>>
    /\ UNCHANGED walletVars

\* the caller writes a byte into an array it holds
WriteByte ==
    \E r \in ret, i \in WriteIndices, v \in WriteValues :
        /\ op' = "write"
        /\ arg' = [arg EXCEPT ![r][i] = v]
        /\ UNCHANGED <<tx, who, ret>>
        /\ UNCHANGED walletVars

NextKeys ==
    \/ PublicKey
    \/ StakeRecord
    \/ WriteByte

SpecKeys == InitKeys /\ [][NextKeys]_vars

(***************************************************************************)
(* crypto/mnemonic: mnemonicToKeyPair                                      *)
(*                                                                         *)
(* The BIP39 library is idealised: a phrase is a string, the valid phrases *)
(* are those of ValidMnemonics, and the seed is 64 opaque bytes that are a *)
(* collision-free function of the phrase and the passphrase.  A call is    *)
(* the sequence of its arguments: <<mnemonic>>, <<mnemonic, passphrase>>   *)
(* or <<mnemonic, passphrase, accountIndex>>.  An account index is a       *)
(* non-negative integer, written like a bigint with its least significant  *)
(* base-256 digit first.                                                   *)
(***************************************************************************)
\* stand-ins for two phrases with a good checksum and one with a bad one
ValidMnemonics == {Str(<<97, 32, 98>>), Str(<<99, 32, 100>>)}

Mnemonics == ValidMnemonics \cup {Str(<<97, 32, 97>>)}

\* validateMnemonic(mnemonic, wordlist)
isValidMnemonic(mnemonic) == mnemonic \in ValidMnemonics

\* mnemonicToSeedSync(mnemonic, passphrase)
mnemonicToSeedSync(mnemonic, passphrase) ==
    Sym([seed |-> <<mnemonic, passphrase>>], 64)

\* new DataView(accountBytes.buffer).setUint32(0, accountIndex, false): the
\* index modulo 2^32, that is its four lowest digits, the most significant
\* of them first
accountBytes(accountIndex) ==
    [i \in 1..4 |-> IF 5 - i <= Len(accountIndex) THEN B(accountIndex[5 - i])
                    ELSE B(0)]

\* KeyPair.fromSeed(seed)
KeyPair_fromSeed(seed) ==
    IF Len(seed) # 32 THEN Throw("KEY_GENERATION_ERROR")
    ELSE KeyPair_fromPrivateKey(seed)

\* keyPair.address
KeyPair_address(keyPair) == bytesToHex(keyPair.publicKey)

\* mnemonicToKeyPair(...args) with passphrase = '' and accountIndex = 0 for
\* the arguments that are not given
mnemonicToKeyPair(args) ==
    LET mnemonic == args[1]
        passphrase == IF Len(args) >= 2 THEN args[2] ELSE <<>>
        accountIndex == IF Len(args) >= 3 THEN args[3] ELSE <<>>
        seed == mnemonicToSeedSync(mnemonic, passphrase)
        combined == seed \o accountBytes(accountIndex)
    IN  IF ~isValidMnemonic(mnemonic) THEN Throw("INVALID_MNEMONIC")
        ELSE KeyPair_fromSeed(hash(combined))

\* the passphrases '', "a" and "b"
Passphrases == {<<>>, Str(<<97>>), Str(<<98>>)}

\* the account indices 0, 1, 256, 2^32 - 1, 2^32 and 2^32 + 1
AccountIndices ==
    {<<>>, <<1>>, <<0, 1>>, <<255, 255, 255, 255>>, <<0, 0, 0, 0, 1>>,
     <<1, 0, 0, 0, 1>>}

MnemonicArgs ==
    {<<m>> : m \in Mnemonics}
    \cup {<<m, p>> : m \in Mnemonics, p \in Passphrases}
    \cup {<<m, p, i>> : m \in Mnemonics, p \in Passphrases, i \in AccountIndices}

(***************************************************************************)
(* The state machine of the derivation                                     *)
(*  arg   the arguments of two calls, <<args1, args2>>                     *)
(*  op    "init", then "mnemonicToKeyPair"                                 *)
(*  ret   after the calls what the two calls returned or threw             *)
(***************************************************************************)
InitMnemonic ==
    /\ tx = NONE
    /\ op = "init"
    /\ who = 0
    /\ ret = NONE
    /\ arg \in MnemonicArgs \X MnemonicArgs
    /\ NoWallet

MnemonicToKeyPair ==
    /\ op = "init"
    /\ op' = "mnemonicToKeyPair"
    /\ ret' = [first |-> mnemonicToKeyPair(arg[1]),
               second |-> mnemonicToKeyPair(arg[2])]
    /\ UNCHANGED <<tx, who, arg>>
    /\ UNCHANGED walletVars

NextMnemonic == MnemonicToKeyPair

SpecMnemonic == InitMnemonic /\ [][NextMnemonic]_vars

(***************************************************************************)
(* Properties of the hashing and signing primitives                        *)
(***************************************************************************)
\* the next level as the claim describes it: an odd level gets a second
\* copy of its last element, then adjacent pairs are hashed
PairedLevel(level) ==
    LET padded == IF Len(level) % 2 = 1 THEN Append(level, level[Len(level)])
                  ELSE level
    IN  [j \in 1..(Len(padded) \div 2) |-> hash(padded[2 * j - 1] \o padded[2 * j])]

\* C9: merkleRoot of the empty list is the hash of the empty byte string,
\* of a one-element list that element, of [h1, h2] hash(h1 ++ h2), of
\* [h1, h2, h3] hash(hash(h1 ++ h2) ++ hash(h3 ++ h3)), and of every list
\* of two or more elements the merkleRoot of its next level.
C9_MerkleRoot ==
    op = "merkleRoot" =>
        /\ Len(arg) = 0 => ret = hash(<<>>)
        /\ Len(arg) = 1 => ret = arg[1]
        /\ Len(arg) = 2 => ret = hash(arg[1] \o arg[2])
        /\ Len(arg) = 3 =>
              ret = hash(hash(arg[1] \o arg[2]) \o hash(arg[3] \o arg[3]))
        /\ Len(arg) >= 2 => ret = merkleRoot(PairedLevel(arg))

C9_Witness ==
    /\ op = "merkleRoot"
    /\ Len(arg) = 5
    /\ arg[4] # arg[5]
    /\ ret = hash(hash(hash(arg[1] \o arg[2]) \o hash(arg[3] \o arg[4]))
                  \o hash(hash(arg[5] \o arg[5]) \o hash(arg[5] \o arg[5])))

\* C10: the signature that sign returns for a message verifies under the
\* signer's public key and that message, and under no other message and
\* no other key pair's public key.
C10_SignVerify ==
    op = "KeyPair.verify" =>
        (ret <=> (who = arg.signer /\ arg.message = arg.signed))

C10_Witness ==
    /\ op = "KeyPair.verify"
    /\ who = arg.signer
    /\ arg.message = arg.signed
    /\ Len(arg.message) = 2
    /\ ret

(***************************************************************************)
(* Properties of the JSON decoding and of the build methods                *)
(***************************************************************************)
\* the kind that the claim gives to a tx_type string
KindOfWireName(name) ==
    CASE name = "transfer" -> Transfer
      [] name = "stake" -> Stake
      [] name = "unstake" -> Unstake
      [] name = "submit_proposal" -> SubmitProposal
      [] name = "vote" -> Vote
      [] OTHER -> Transfer

\* C11: jsonToTransaction maps the wire names transfer, stake, unstake,
\* submit_proposal and vote to their kinds and every other tx_type string
\* to Transfer, and the tx_type string raises no error: the decoding fails
\* only where it fails with the tx_type that transactionToJson wrote.
C11_TxTypeDecoding ==
    op = "jsonToTransaction.tx_type" =>
        IF IsThrown(ret) THEN IsThrown(jsonToTransaction(transactionToJson(tx)))
        ELSE ret.txType = KindOfWireName(arg.tx_type)

\* C12: every record that a build method returns has a signature of 64
\* zero bytes; a Stake, Unstake, SubmitProposal or Vote record has to equal
\* to from; a Stake or Unstake record has no payload; a Vote record has
\* amount 0 and the payload {"proposal_id":<the proposal id>,"option":
\* <the option>}; a SubmitProposal record has the deposit as its amount and
\* the payload {"title":...,"description":...,"changes":[...]}.
C12_BuildRules ==
    (op \in BuildOps /\ ~IsThrown(ret)) =>
        /\ ret.signature = Zeros(64)
        /\ op # "buildTransfer" => ret.to = ret.from
        /\ op \in {"buildStake", "buildUnstake"} => ret.payload = NULL
        /\ op = "buildVote" =>
              /\ ret.amount = <<>>
              /\ ret.payload =
                    TextEncode(StringifyVote(arg.proposalId, arg.option))
        /\ op = "buildSubmitProposal" =>
              /\ ret.amount = arg.deposit
              /\ ret.payload =
                    TextEncode(StringifyProposal(arg.title, arg.description,
                                                arg.changes))

\* the number of bytes of the payload that the options of buildTransfer or
\* of buildSubmitProposal stand for
PayloadByteLength(operation, options) ==
    IF operation = "buildSubmitProposal"
    THEN Utf8Length(StringifyProposal(options.title, options.description,
                                      options.changes))
    ELSE IF ~Has(options, "payload") THEN 0
    ELSE IF DOMAIN options.payload = {"str"} THEN Utf8Length(options.payload.str)
    ELSE Len(options.payload.bytes)

\* C13: buildTransfer and buildSubmitProposal fail with InvalidTransaction
\* exactly when the payload has more than 10240 bytes, so a payload of
\* exactly 10240 bytes is accepted, and a record that they return has a
\* payload of at most 10240 bytes.
C13_PayloadLimit ==
    op \in {"buildTransfer", "buildSubmitProposal"} =>
        /\ (ret = Throw("INVALID_TRANSACTION")) <=> (PayloadByteLength(op, arg) > 10240)
        /\ (~IsThrown(ret) /\ ret.payload # NULL) => Len(ret.payload) <= 10240

C13_Witness ==
    /\ op = "buildTransfer"
    /\ Has(arg, "payload")
    /\ DOMAIN arg.payload = {"str"}
    /\ Len(arg.payload.str) = 5120
    /\ ~IsThrown(ret)
    /\ Len(ret.payload) = 10240

\* the recipient is, after an optional 0x, exactly 64 hexadecimal characters
WellFormedRecipient(to) ==
    LET clean == IF Len(to) >= 2 /\ to[1] = Ch(48) /\ to[2] = Ch(120)
                 THEN SubSeq(to, 3, Len(to)) ELSE to
    IN  /\ Len(clean) = 64
        /\ \A i \in 1..64 : HexVal(clean[i]) >= 0

\* the 32 bytes that a well-formed recipient denotes
DenotedAddress(to) ==
    LET clean == IF Len(to) = 66 THEN SubSeq(to, 3, 66) ELSE to
    IN  [i \in 1..32 |-> B(16 * HexVal(clean[2 * i - 1]) + HexVal(clean[2 * i]))]

\* C14 as stated: buildTransfer fails with InvalidAddress whenever the
\* recipient string, after an optional 0x, is not exactly 64 hexadecimal
\* characters, and otherwise returns a record whose to field is the 32
\* bytes that the string denotes.
C14_InvalidAddress ==
    op = "buildTransfer" =>
        IF WellFormedRecipient(arg.to)
        THEN ~IsThrown(ret) => ret.to = DenotedAddress(arg.to)
        ELSE ret = Throw("INVALID_ADDRESS")

\* C14 amended: the payload size is checked before the recipient.  With a
\* payload above 10240 bytes buildTransfer fails with InvalidTransaction
\* whatever the recipient; with a payload within the limit it fails with
\* InvalidAddress whenever the recipient is not, after an optional 0x,
\* exactly 64 hexadecimal characters, and otherwise returns a record whose
\* to field is the 32 bytes that the string denotes.
C14_InvalidAddressWithinLimit ==
    op = "buildTransfer" =>
        IF PayloadByteLength(op, arg) > 10240 THEN ret = Throw("INVALID_TRANSACTION")
        ELSE IF ~WellFormedRecipient(arg.to) THEN ret = Throw("INVALID_ADDRESS")
        ELSE ~IsThrown(ret) /\ ret.to = DenotedAddress(arg.to)

C14_Witness ==
    /\ op = "buildTransfer"
    /\ Len(arg.to) = 66
    /\ ~IsThrown(ret)
    /\ ret.to = Fill(32, 171)

(***************************************************************************)
(* utils/format: formatAmount                                              *)
(***************************************************************************)
TOKEN_DECIMALS == 6

\* the decimal digits of baseUnits, padded with zeros at the front to
\* TOKEN_DECIMALS + 1 characters, with a point before the last
\* TOKEN_DECIMALS of them and the zeros at the end of the fraction removed
formatAmount(baseUnits) ==
    LET digits == bigintToString(baseUnits)
        str == IF Len(digits) < TOKEN_DECIMALS + 1
               THEN Repeat(48, TOKEN_DECIMALS + 1 - Len(digits)) \o digits
               ELSE digits
        integerPart == SubSeq(str, 1, Len(str) - TOKEN_DECIMALS)
        decimalPart == SubSeq(str, Len(str) - TOKEN_DECIMALS + 1, Len(str))
        kept == {n \in 1..TOKEN_DECIMALS : decimalPart[n] # Ch(48)}
        trimmedLength == IF kept = {} THEN 0
                         ELSE CHOOSE n \in kept : \A m \in kept : m <= n
    IN  IF trimmedLength = 0 THEN integerPart
        ELSE integerPart \o <<Ch(46)>> \o SubSeq(decimalPart, 1, trimmedLength)

\* the outcome of parseAmount when it throws a TesseraError
\* (InvalidTransaction)
INVALID_AMOUNT == <<0 - 2>>

\* parseAmount(amount) for a string of digits, points, minus signs and
\* letters: the string is split at its points; the fraction is cut or
\* padded to TOKEN_DECIMALS digits; BigInt of the two parts together is
\* the result, a SyntaxError for anything but digits after an optional
\* minus sign; a negative result is an InvalidTransaction
parseAmount(amount) ==
    LET points == {i \in 1..Len(amount) : amount[i] = Ch(46)}
        p == IF points = {} THEN Len(amount) + 1
             ELSE CHOOSE i \in points : \A j \in points : i <= j
        part0 == SubSeq(amount, 1, p - 1)
        part1 == SubSeq(amount, p + 1, Len(amount))
        integerPart == IF part0 = <<>> THEN <<Ch(48)>> ELSE part0
        decimalPart == IF Len(part1) > TOKEN_DECIMALS
                       THEN SubSeq(part1, 1, TOKEN_DECIMALS)
                       ELSE part1 \o Repeat(48, TOKEN_DECIMALS - Len(part1))
        combined == integerPart \o decimalPart
        magnitude == BigInt(Tail(combined))
    IN  IF Cardinality(points) > 1 THEN INVALID_AMOUNT
        ELSE IF combined[1] = Ch(45)
        THEN IF magnitude = BIGINT_SYNTAX_ERROR THEN BIGINT_SYNTAX_ERROR
             ELSE IF magnitude = <<>> THEN <<>>
             ELSE INVALID_AMOUNT
        ELSE BigInt(combined)

(***************************************************************************)
(* client: TesseraClient, and the node behind it                           *)
(*                                                                         *)
(* An endpoint URL is a number and a client the record of its endpoint.  A  *)
(* request is a record of the client it was sent through, the path and the *)
(* body.  The answer of post (and of rpc) is the *)
(* parsed response or a thrown TesseraError: RPC_ERROR for a response that *)
(* is not ok or carries an error, TIMEOUT for an aborted request,          *)
(* NETWORK_ERROR for any other failure of fetch.                           *)
(***************************************************************************)
NumClients == 2
MaxChainNonce == 2

Endpoints == 1..NumClients

\* new TesseraClient(endpoint)
TesseraClient(endpoint) == [endpoint |-> endpoint]

Clients == {TesseraClient(endpoint) : endpoint \in Endpoints}

TransportErrors == {Throw("RPC_ERROR"), Throw("TIMEOUT"), Throw("NETWORK_ERROR")}

\* this.post('/get_account', { address })
GetAccountRequest(c, address) ==
    [client |-> c, path |-> "/get_account", body |-> [address |-> address]]

\* a submission through the client that the wallet has when it is sent
SubmitRequest_rebound(c, json) ==
    [client |-> client, path |-> "/rpc",
     body |-> [method |-> "tx_submit", params |-> json]]

\* this.rpc('tx_submit', tx)
SubmitRequest(c, json) ==
    [client |-> c, path |-> "/rpc", body |-> [method |-> "tx_submit", params |-> json]]

\* this.post('/get_transaction', { tx_hash: hash })
GetTransactionRequest(c, txHash) ==
    [client |-> c, path |-> "/get_transaction", body |-> [tx_hash |-> txHash]]

\* what the node answers to /get_account: the account with its balance of
\* 1.5 TESS and its nonce at the node; or the request fails
AccountResponses(address) ==
    {[address |-> address, balance |-> 1500000, nonce |-> chainNonce, exists |-> TRUE]}
    \cup TransportErrors

\* TesseraClient.getAccount, from the answer of post on
client_getAccount(response) ==
    IF IsThrown(response) THEN response
    ELSE [address |-> response.address,
          balance |-> FromNat(response.balance),
          nonce |-> FromNat(response.nonce),
          exists |-> response.exists]

\* what the node answers to tx_submit of json: it takes the transaction
\* and names it by its hash, or the request fails
SubmitResponses(json) ==
    {[hash |-> json.hash, status |-> "pending"]} \cup TransportErrors

\* TesseraClient.submitTransaction, from the answer of rpc on
client_submitTransaction(json, response) ==
    IF IsThrown(response) THEN response
    ELSE [hash |-> response.hash, status |-> response.status, fee |-> BigInt(json.fee)]

(***************************************************************************)
(* wallet: Wallet                                                          *)
(*                                                                         *)
(* The wallet of the model holds the key pair of key 1 and the chain id    *)
(* "tessera-testnet-1".  A call of an asynchronous method is a record:     *)
(*  method    the method called                                            *)
(*  params    its argument                                                 *)
(*  pc        the await at which the call stands: "getAccount",            *)
(*            "submitTransaction", and for wait "getTransaction" and       *)
(*            "setTimeout"; "done" when the promise is settled             *)
(*  client    the client that getClient() returned to the call             *)
(*  requests  the requests the call has sent, in order                     *)
(*  account   the Account that the call's getNonce has read                *)
(*  ret       Resolved(v) for a promise fulfilled with v, or the error the *)
(*            promise is rejected with                                     *)
(***************************************************************************)
IDLE == [pc |-> "idle"]

Resolved(v) == [value |-> v]

WalletBuilder == BuilderOf(1)

WalletChainId == WalletBuilder.defaultChainId

\* this.address
WalletAddress == bytesToHex(WalletBuilder.keyPair.publicKey)

\* the client option that is the empty string: an endpoint, but falsy
EMPTY_ENDPOINT == 0

WalletOptionsSet ==
    {[chainId |-> TESTNET],
     [chainId |-> TESTNET, client |-> EMPTY_ENDPOINT],
     [chainId |-> TESTNET, client |-> 1]}

\* this.client after the constructor: a client of the endpoint
\* options.client if that is given and not the empty string, else null
Wallet_constructor(options) ==
    IF Has(options, "client") /\ options.client # EMPTY_ENDPOINT
    THEN TesseraClient(options.client)
    ELSE NONE

QueryMethods == {"getAccount", "getBalance", "getBalanceFormatted", "getNonce"}

MutatingMethods == {"transfer", "stake", "unstake", "submitProposal", "vote"}

\* An amount of the params of a wallet method is [bigint |-> v] for a
\* bigint and [string |-> s] for a string.
\* "1.5"
ONE_AND_A_HALF == Str(<<49, 46, 53>>)

\* "1.2.3"
TWO_POINTS == Str(<<49, 46, 50, 46, 51>>)

TransferParamsSet ==
    {[to |-> ZERO_ADDRESS, amount |-> [bigint |-> MILLION]],
     [to |-> BAD_ADDRESS, amount |-> [bigint |-> MILLION]],
     [to |-> ZERO_ADDRESS, amount |-> [bigint |-> MILLION],
      payload |-> [str |-> HELLO]],
     [to |-> ZERO_ADDRESS, amount |-> [bigint |-> MILLION],
      payload |-> [bytes |-> Zeros(MAX_PAYLOAD_SIZE + 1)]],
     [to |-> ZERO_ADDRESS, amount |-> [string |-> ONE_AND_A_HALF]],
     [to |-> ZERO_ADDRESS, amount |-> [string |-> TWO_POINTS]]}

StakeParamsSet == {[amount |-> [bigint |-> MILLION]]}

ProposalParamsSet ==
    {[title |-> TITLE, description |-> DESCRIPTION, changes |-> <<>>,
      deposit |-> [bigint |-> MILLION]]}

VoteParamsSet == {[proposalId |-> FromNat(1), option |-> VOTE_YES]}

\* signTransfer: without a nonce, with the nonce 0n, and with a nonce and
\* a chain id
SignTransferParamsSet ==
    {[to |-> ZERO_ADDRESS, amount |-> [bigint |-> MILLION]],
     [to |-> ZERO_ADDRESS, amount |-> [bigint |-> MILLION], nonce |-> <<>>],
     [to |-> ZERO_ADDRESS, amount |-> [bigint |-> MILLION], nonce |-> FromNat(7),
      chainId |-> CHAIN_E_ACUTE]}

\* the options that transfer and signTransfer hand to txBuilder.signTransfer
TransferOptionsOf(params, amount, nonce, chainId) ==
    IF Has(params, "payload")
    THEN [to |-> params.to, amount |-> amount, payload |-> params.payload,
          nonce |-> nonce, chainId |-> chainId]
    ELSE [to |-> params.to, amount |-> amount,
          nonce |-> nonce, chainId |-> chainId]

\* typeof amount === 'string' ? parseAmount(amount) : amount
AmountOf(amount) ==
    IF Has(amount, "string") THEN parseAmount(amount.string) ELSE amount.bigint

\* txBuilder.signTransfer, signStake, signUnstake, signSubmitProposal and
\* signVote with the options that the wallet method makes of its params:
\* the signed record, or the error that the build method throws
Wallet_signed(method, params, nonce, chainId, now) ==
    LET amount == CASE method = "vote" -> <<>>
                    [] method = "submitProposal" -> AmountOf(params.deposit)
                    [] OTHER -> AmountOf(params.amount)
        built ==
            CASE amount = BIGINT_SYNTAX_ERROR -> Throw("SyntaxError")
              [] amount = INVALID_AMOUNT -> Throw("INVALID_TRANSACTION")
              [] method \in {"transfer", "signTransfer"} ->
                    buildTransfer(WalletBuilder,
                                  TransferOptionsOf(params, amount, nonce, chainId),
                                  now)
              [] method = "stake" ->
                    buildStake(WalletBuilder,
                               [amount |-> amount, nonce |-> nonce,
                                chainId |-> chainId], now)
              [] method = "unstake" ->
                    buildUnstake(WalletBuilder,
                                 [amount |-> amount, nonce |-> nonce,
                                  chainId |-> chainId], now)
              [] method = "submitProposal" ->
                    buildSubmitProposal(WalletBuilder,
                                        [title |-> params.title,
                                         description |-> params.description,
                                         changes |-> params.changes,
                                         deposit |-> amount,
                                         nonce |-> nonce, chainId |-> chainId], now)
              [] method = "vote" ->
                    buildVote(WalletBuilder,
                              [proposalId |-> params.proposalId,
                               option |-> params.option,
                               nonce |-> nonce, chainId |-> chainId], now)
    IN  IF IsThrown(built) THEN built
        ELSE TransactionBuilder_sign(WalletBuilder, built).ret

\* a nonce policy that submits the nonce it has read
nextNonce_asRead(nonce) == nonce

\* a nonce policy that steps over the nonces of the calls that stand at
\* their submission
nextNonce_reserving(nonce) ==
    LET inFlight == {j \in DOMAIN calls : calls[j].pc = "submitTransaction"}
    IN  FromNat(Cardinality(inFlight) + 1 + (IF nonce = <<>> THEN 0 ELSE nonce[1]))

\* (await this.getNonce()) + 1n
nextNonce(nonce) == Normalize(MulAdd(nonce, 1, 1))

\* createPendingTransaction(hash, client): the handle, which keeps the
\* client for its wait
createPendingTransaction(txHash, c) == [hash |-> txHash, client |-> c]

\* a connect that binds a client only while the wallet has none
Wallet_connect_once(endpoint) ==
    IF client = NONE THEN TesseraClient(endpoint) ELSE client

\* this.client after connect(endpoint)
Wallet_connect(endpoint) == TesseraClient(endpoint)

\* a call that goes to the network without asking getClient()
Wallet_call_unchecked(method, params) ==
    [method |-> method, params |-> params, pc |-> "getAccount", client |-> client,
     requests |-> <<GetAccountRequest(client, WalletAddress)>>,
     account |-> NONE, ret |-> NONE]

\* A call up to its first await.  getClient() throws when the wallet has
\* no client; else getNonce() goes through getAccount() to the client's
\* getAccount, which sends the request before it awaits the answer.
Wallet_call(method, params) ==
    IF client = NONE
    THEN [method |-> method, params |-> params, pc |-> "done", client |-> NONE,
          requests |-> <<>>, account |-> NONE, ret |-> Throw("NETWORK_ERROR")]
    ELSE [method |-> method, params |-> params, pc |-> "getAccount",
          client |-> client,
          requests |-> <<GetAccountRequest(client, WalletAddress)>>,
          account |-> NONE, ret |-> NONE]

\* a signTransfer that takes the nonce 0n for no nonce
Wallet_signOffline_truthy(params, now) ==
    LET chainId == IF Has(params, "chainId") THEN params.chainId ELSE WalletChainId
        signed == Wallet_signed("signTransfer", params, params.nonce, chainId, now)
    IN  IF params.nonce = <<>> THEN Wallet_call("signTransfer", params)
        ELSE [method |-> "signTransfer", params |-> params, pc |-> "done",
              client |-> NONE, requests |-> <<>>, account |-> NONE,
              ret |-> Resolved(transactionToJson(signed))]

\* signTransfer with params.nonce: no await before the signing
Wallet_signOffline(params, now) ==
    LET chainId == IF Has(params, "chainId") THEN params.chainId ELSE WalletChainId
        signed == Wallet_signed("signTransfer", params, params.nonce, chainId, now)
    IN  [method |-> "signTransfer", params |-> params, pc |-> "done",
         client |-> NONE, requests |-> <<>>, account |-> NONE,
         ret |-> IF IsThrown(signed) THEN signed
                 ELSE Resolved(transactionToJson(signed))]

\* A call from the answer to its /get_account request on, up to its next
\* await or to its end.
Wallet_afterGetAccount(call, response, now) ==
    LET account == client_getAccount(response)
        done(r) == [call EXCEPT !.pc = "done", !.account = account,
                                !.ret = Resolved(r)]
        chainId == IF call.method = "signTransfer" /\ Has(call.params, "chainId")
                   THEN call.params.chainId
                   ELSE WalletChainId
        signed == Wallet_signed(call.method, call.params,
                                nextNonce(account.nonce), chainId, now)
    IN  IF IsThrown(account) THEN [call EXCEPT !.pc = "done", !.ret = account]
        ELSE IF call.method = "getAccount" THEN done(account)
        ELSE IF call.method = "getBalance" THEN done(account.balance)
        ELSE IF call.method = "getBalanceFormatted"
             THEN done(formatAmount(account.balance))
        ELSE IF call.method = "getNonce" THEN done(account.nonce)
        ELSE IF IsThrown(signed)
             THEN [call EXCEPT !.pc = "done", !.account = account, !.ret = signed]
        ELSE IF call.method = "signTransfer" THEN done(transactionToJson(signed))
        ELSE [call EXCEPT
                !.pc = "submitTransaction",
                !.account = account,
                !.requests = Append(@, SubmitRequest(call.client,
                                                     transactionToJson(signed)))]

\* a submission that is sent again when it fails
Wallet_afterSubmit_retrying(call, response) ==
    IF IsThrown(response)
    THEN [call EXCEPT !.requests = Append(@, call.requests[Len(call.requests)])]
    ELSE [call EXCEPT !.pc = "done",
                      !.ret = Resolved(createPendingTransaction(response.hash,
                                                               call.client))]

\* A mutating call from the answer to its tx_submit request on.
Wallet_afterSubmit(call, response) ==
    LET json == call.requests[Len(call.requests)].body.params
        receipt == client_submitTransaction(json, response)
    IN  IF IsThrown(receipt) THEN [call EXCEPT !.pc = "done", !.ret = receipt]
        ELSE [call EXCEPT !.pc = "done",
                          !.ret = Resolved(createPendingTransaction(receipt.hash,
                                                                   call.client))]

(***************************************************************************)
(* The state machine of the wallet                                         *)
(*  op, arg       "init" and the options the wallet was created with, and  *)
(*                from the first connect on "connect" and the endpoint of  *)
(*                the last connect                                         *)
(*  tx, who, ret  not used                                                 *)
(*  clock         not used: no method of this state machine reads it       *)
(***************************************************************************)
InitWallet ==
    /\ tx = NONE
    /\ op = "init"
    /\ who = 0
    /\ ret = NONE
    /\ arg \in WalletOptionsSet
    /\ client = Wallet_constructor(arg)
    /\ calls = <<IDLE>>
    /\ chainNonce = 0
    /\ clock = 0

\* wallet.connect(endpoint)
Connect ==
    \E endpoint \in Endpoints :
        /\ op' = "connect"
        /\ who' = 0
        /\ arg' = endpoint
        /\ client' = Wallet_connect(endpoint)
        /\ UNCHANGED <<tx, ret, calls, chainNonce, clock>>

\* caller i, whose earlier call is settled, makes a call that runs up to
\* its first await
Called(i, call) ==
    /\ calls' = [calls EXCEPT ![i] = call]
    /\ UNCHANGED <<tx, op, who, arg, ret, client, chainNonce, clock>>

GetAccount ==
    \E i \in DOMAIN calls :
        /\ calls[i].pc \in {"idle", "done"}
        /\ Called(i, Wallet_call("getAccount", NONE))

GetBalance ==
    \E i \in DOMAIN calls :
        /\ calls[i].pc \in {"idle", "done"}
        /\ Called(i, Wallet_call("getBalance", NONE))

GetBalanceFormatted ==
    \E i \in DOMAIN calls :
        /\ calls[i].pc \in {"idle", "done"}
        /\ Called(i, Wallet_call("getBalanceFormatted", NONE))

GetNonce ==
    \E i \in DOMAIN calls :
        /\ calls[i].pc \in {"idle", "done"}
        /\ Called(i, Wallet_call("getNonce", NONE))

WalletTransfer ==
    \E i \in DOMAIN calls, params \in TransferParamsSet :
        /\ calls[i].pc \in {"idle", "done"}
        /\ Called(i, Wallet_call("transfer", params))

WalletStake ==
    \E i \in DOMAIN calls, params \in StakeParamsSet :
        /\ calls[i].pc \in {"idle", "done"}
        /\ Called(i, Wallet_call("stake", params))

WalletUnstake ==
    \E i \in DOMAIN calls, params \in StakeParamsSet :
        /\ calls[i].pc \in {"idle", "done"}
        /\ Called(i, Wallet_call("unstake", params))

WalletSubmitProposal ==
    \E i \in DOMAIN calls, params \in ProposalParamsSet :
        /\ calls[i].pc \in {"idle", "done"}
        /\ Called(i, Wallet_call("submitProposal", params))

WalletVote ==
    \E i \in DOMAIN calls, params \in VoteParamsSet :
        /\ calls[i].pc \in {"idle", "done"}
        /\ Called(i, Wallet_call("vote", params))

\* params.nonce ?? (await this.getNonce()) + 1n
WalletSignTransfer ==
    \E i \in DOMAIN calls, params \in SignTransferParamsSet, now \in NowValues :
        /\ calls[i].pc \in {"idle", "done"}
        /\ Called(i, IF Has(params, "nonce") THEN Wallet_signOffline(params, now)
                     ELSE Wallet_call("signTransfer", params))

\* the request to /get_account of a call is answered and the call goes on
GetAccountAnswered ==
    \E i \in DOMAIN calls, now \in NowValues :
        /\ calls[i].pc = "getAccount"
        /\ \E response \in AccountResponses(WalletAddress) :
              calls' = [calls EXCEPT
                          ![i] = Wallet_afterGetAccount(calls[i], response, now)]
        /\ UNCHANGED <<tx, op, who, arg, ret, client, chainNonce, clock>>

\* the tx_submit request of a call is answered and the call ends
SubmitAnswered ==
    \E i \in DOMAIN calls :
        /\ calls[i].pc = "submitTransaction"
        /\ \E response \in
                SubmitResponses(calls[i].requests[Len(calls[i].requests)].body.params) :
              calls' = [calls EXCEPT ![i] = Wallet_afterSubmit(calls[i], response)]
        /\ UNCHANGED <<tx, op, who, arg, ret, client, chainNonce, clock>>

\* a block with a transaction of the account is produced
NodeAdvance ==
    /\ chainNonce < MaxChainNonce
    /\ chainNonce' = chainNonce + 1
    /\ UNCHANGED <<tx, op, who, arg, ret, client, calls, clock>>

NextWallet ==
    \/ Connect
    \/ GetAccount
    \/ GetBalance
    \/ GetBalanceFormatted
    \/ GetNonce
    \/ WalletTransfer
    \/ WalletStake
    \/ WalletUnstake
    \/ WalletSubmitProposal
    \/ WalletVote
    \/ WalletSignTransfer
    \/ GetAccountAnswered
    \/ SubmitAnswered
    \/ NodeAdvance

SpecWallet == InitWallet /\ [][NextWallet]_vars

(***************************************************************************)
(* The state machine of callers that use one connected wallet at the same  *)
(* time: each makes mutating calls, one after the other, without waiting   *)
(* for the calls of the others.  The account's nonce at the node is any of *)
(* 0..MaxChainNonce and no block is produced meanwhile.                    *)
(***************************************************************************)
\* two callers
Callers == {1, 2}

InitRace ==
    /\ tx = NONE
    /\ op = "init"
    /\ who = 0
    /\ ret = NONE
    /\ arg = [chainId |-> TESTNET, client |-> 1]
    /\ client = Wallet_constructor(arg)
    /\ calls = [i \in Callers |-> IDLE]
    /\ chainNonce \in 0..MaxChainNonce
    /\ clock = 0

NextRace ==
    \/ WalletTransfer
    \/ WalletStake
    \/ WalletUnstake
    \/ WalletSubmitProposal
    \/ WalletVote
    \/ GetAccountAnswered
    \/ SubmitAnswered

SpecRace == InitRace /\ [][NextRace]_vars

(***************************************************************************)
(* The state machine of one caller that uses a connected wallet for one    *)
(* mutating call after the other: the next call starts when the call       *)
(* before has returned its handle or has failed.                           *)
(*  tx     the mempool of the node: the nonces of the transactions that it *)
(*         has accepted with tx_submit, in the order of their arrival      *)
(*  calls  the one call of the caller                                      *)
(* The node produces blocks when it likes (NodeAdvance), so the nonce of   *)
(* the account may or may not have moved when the next call reads it.      *)
(***************************************************************************)
MaxSubmitted == 2

InitSequential ==
    /\ tx = <<>>
    /\ op = "init"
    /\ who = 0
    /\ ret = NONE
    /\ arg = [chainId |-> TESTNET, client |-> 1]
    /\ client = Wallet_constructor(arg)
    /\ calls = <<IDLE>>
    /\ chainNonce = 0
    /\ clock = 0

\* the tx_submit request of the call is answered and the call ends; a
\* transaction that the node accepts is in its mempool
SubmitAnsweredByNode ==
    /\ calls[1].pc = "submitTransaction"
    /\ \E response \in SubmitResponses(calls[1].requests[2].body.params) :
          /\ IsThrown(response) \/ Len(tx) < MaxSubmitted
          /\ calls' = [calls EXCEPT ![1] = Wallet_afterSubmit(calls[1], response)]
          /\ tx' = IF IsThrown(response) THEN tx
                   ELSE Append(tx, calls[1].requests[2].body.params.nonce)
    /\ UNCHANGED <<op, who, arg, ret, client, chainNonce, clock>>

NextSequential ==
    \/ WalletTransfer
    \/ WalletStake
    \/ WalletUnstake
    \/ WalletSubmitProposal
    \/ WalletVote
    \/ GetAccountAnswered
    \/ SubmitAnsweredByNode
    \/ NodeAdvance

SpecSequential == InitSequential /\ [][NextSequential]_vars

(***************************************************************************)
(* wallet: PendingTransaction.wait                                         *)
(*                                                                         *)
(* clock is Date.now() in milliseconds.  A call of wait is a record with   *)
(* the fields method, params (the arguments of the call: none, or the      *)
(* timeout), pc, client, requests and ret as above, and                    *)
(*  hash       the hash of the handle                                      *)
(*  startTime  Date.now() when wait was called                             *)
(*  asked      when the last request was sent                              *)
(*  wake       when the timer of the last setTimeout is due                *)
(* Of a transaction that the node returns, the model keeps the two fields  *)
(* that wait reads: hash and fee, each of which may be absent.             *)
(***************************************************************************)
\* wait: async (timeoutMs = 60000)
DEFAULT_TIMEOUT_MS == 60000

pollInterval == 1000

\* the step of the clock: half a poll interval
TickMs == pollInterval \div 2

\* the clock stops two poll intervals after the default timeout
MaxClock == DEFAULT_TIMEOUT_MS + 2 * pollInterval

\* wait is called within the first poll interval
LastCall == pollInterval

\* the client of the handle: new TesseraClient(endpoint, { timeout }), whose
\* requests are aborted after half a poll interval
WaitClient == [endpoint |-> 1, timeout |-> TickMs]

\* the arguments of wait: none, or a timeout of -1, 0, 1500 or 2000 ms
WaitArgs == {<<>>, <<0 - 1>>, <<0>>, <<1500>>, <<2000>>}

\* the parameter timeoutMs with its default
timeoutMsOf(args) == IF args = <<>> THEN DEFAULT_TIMEOUT_MS ELSE args[1]

\* the transactions a node may return for a hash: that transaction, another
\* one, or one with an empty hash, with a fee of "1000"; that transaction
\* with a fee of "1.5" or with no fee; and one with no hash
FoundTransactions(txHash) ==
    {[hash |-> h, fee |-> Str(<<49, 48, 48, 48>>)] :
        h \in {txHash, ZERO_ADDRESS, <<>>}}
    \cup {[hash |-> txHash, fee |-> Str(<<49, 46, 53>>)],
          [hash |-> txHash],
          [fee |-> Str(<<49, 48, 48, 48>>)]}

\* what the node answers to /get_transaction: a transaction that is in a
\* block (in_mempool false) or still in the mempool (in_mempool true), or
\* no transaction; or the request fails
TransactionResponses(txHash) ==
    {[transaction |-> t, in_mempool |-> m] :
        t \in FoundTransactions(txHash), m \in BOOLEAN}
    \cup {[in_mempool |-> TRUE]}
    \cup TransportErrors

\* TesseraClient.getTransaction, from the answer of post on: NONE is null
\* or undefined
client_getTransaction(response) ==
    IF IsThrown(response)
    THEN IF response.error = "RPC_ERROR" THEN NONE ELSE response
    ELSE IF Has(response, "transaction") THEN response.transaction ELSE NONE

\* a loop condition that lets the loop run at the deadline itself
waitContinues_inclusive(now, startTime, timeoutMs) == now - startTime <= timeoutMs

\* Date.now() - startTime < timeoutMs
waitContinues(now, startTime, timeoutMs) == now - startTime < timeoutMs

\* a loop that pauses at its deadline and never throws
Wait_loop_spinning(call, now) ==
    IF waitContinues(now, call.startTime, timeoutMsOf(call.params))
    THEN [call EXCEPT !.pc = "getTransaction",
                      !.requests = Append(@, GetTransactionRequest(call.client,
                                                                   call.hash)),
                      !.asked = now]
    ELSE [call EXCEPT !.pc = "setTimeout", !.wake = now]

\* wait from the head of its loop to its next await, or to its end
Wait_loop(call, now) ==
    IF waitContinues(now, call.startTime, timeoutMsOf(call.params))
    THEN [call EXCEPT !.pc = "getTransaction",
                      !.requests = Append(@, GetTransactionRequest(call.client,
                                                                   call.hash)),
                      !.asked = now]
    ELSE [call EXCEPT !.pc = "done", !.ret = Throw("TIMEOUT")]

\* handle.wait(...args) up to its first await
Wait_call(handle, args, now) ==
    Wait_loop([method |-> "wait", params |-> args, pc |-> "idle",
               client |-> handle.client, hash |-> handle.hash,
               requests |-> <<>>, startTime |-> now, asked |-> now,
               wake |-> now, ret |-> NONE], now)

\* wait from the answer to its /get_transaction request on, up to its next
\* await or to its end.  BigInt(tx.fee ?? 0) throws a SyntaxError for a fee
\* that is no integer.
Wait_afterGetTransaction(call, response, now) ==
    LET t == client_getTransaction(response)
    IN  IF IsThrown(t) THEN [call EXCEPT !.pc = "done", !.ret = t]
        ELSE IF t # NONE /\ Has(t, "hash") /\ t.hash # <<>>
        THEN LET fee == IF Has(t, "fee") THEN BigInt(t.fee) ELSE <<>>
             IN  IF fee = BIGINT_SYNTAX_ERROR
                 THEN [call EXCEPT !.pc = "done", !.ret = Throw("SyntaxError")]
                 ELSE [call EXCEPT !.pc = "done",
                                   !.ret = Resolved([hash |-> t.hash,
                                                     status |-> "confirmed",
                                                     fee |-> fee])]
        ELSE [call EXCEPT !.pc = "setTimeout", !.wake = now + pollInterval]

(***************************************************************************)
(* The state machine of wait                                               *)
(*  arg       the handle, as transfer returned it                          *)
(*  calls     the one call of wait                                         *)
(*  clock     Date.now()                                                   *)
(*  ret       the answer of the node that wait has just taken, NONE once   *)
(*            time has passed or the loop has gone on                      *)
(*  tx, op, who, chainNonce   not used                                     *)
(***************************************************************************)
InitWait ==
    /\ tx = NONE
    /\ op = "init"
    /\ who = 0
    /\ ret = NONE
    /\ client = WaitClient
    /\ arg = createPendingTransaction(HEX_AB_64, client)
    /\ calls = <<IDLE>>
    /\ chainNonce = 0
    /\ clock = 0

WaitCalledWith(timeouts) ==
    \E args \in timeouts :
        /\ calls[1].pc = "idle"
        /\ calls' = [calls EXCEPT ![1] = Wait_call(arg, args, clock)]
        /\ UNCHANGED <<tx, op, who, arg, ret, client, chainNonce, clock>>

WaitCalled == WaitCalledWith(WaitArgs)

GetTransactionAnswered ==
    /\ calls[1].pc = "getTransaction"
    /\ \E response \in TransactionResponses(calls[1].hash) :
           /\ ret' = response
           /\ calls' = [calls EXCEPT
                           ![1] = Wait_afterGetTransaction(calls[1], response, clock)]
    /\ UNCHANGED <<tx, op, who, arg, client, chainNonce, clock>>

\* the timer of setTimeout is due: the loop goes on
TimerFired ==
    /\ calls[1].pc = "setTimeout"
    /\ clock >= calls[1].wake
    /\ calls' = [calls EXCEPT ![1] = Wait_loop(calls[1], clock)]
    /\ ret' = NONE
    /\ UNCHANGED <<tx, op, who, arg, client, chainNonce, clock>>

\* Time passes: up to the call of wait, and then until wait ends.  A timer
\* that is due runs first: the timer of setTimeout, and the timer of the
\* client that aborts the request, which then fails with Timeout.
Tick ==
    /\ clock < MaxClock
    /\ calls[1].pc # "done"
    /\ calls[1].pc = "idle" => clock < LastCall
    /\ calls[1].pc = "setTimeout" => clock < calls[1].wake
    /\ calls[1].pc = "getTransaction" =>
           clock < calls[1].asked + calls[1].client.timeout
    /\ clock' = clock + TickMs
    /\ ret' = NONE
    /\ UNCHANGED <<tx, op, who, arg, client, calls, chainNonce>>

NextWait ==
    \/ WaitCalled
    \/ GetTransactionAnswered
    \/ TimerFired
    \/ Tick

SpecWait == InitWait /\ [][NextWait]_vars

\* the timeouts of a few poll intervals that a caller passes
ShortWaitArgs == (WaitArgs \ {<<>>}) \cup {<<4000>>}

WaitCalledSoon == WaitCalledWith(ShortWaitArgs)

NextWaitSoon ==
    \/ WaitCalledSoon
    \/ GetTransactionAnswered
    \/ TimerFired
    \/ Tick

\* wait with a timeout that the caller passes, where every request of
\* getTransaction is answered or fails, the clock goes on, and the event
\* loop runs a timer that is due
SpecWaitFair ==
    /\ InitWait
    /\ [][NextWaitSoon]_vars
    /\ WF_vars(GetTransactionAnswered)
    /\ WF_vars(TimerFired)
    /\ WF_vars(Tick)

(***************************************************************************)
(* Properties of the wallet                                                *)
(***************************************************************************)
\* the operations that need the network
NetworkDependent(call) ==
    \/ call.method \in QueryMethods \cup MutatingMethods
    \/ call.method = "signTransfer" /\ ~Has(call.params, "nonce")

\* caller i makes a call in this step
Starts(i) ==
    /\ calls[i].pc \in {"idle", "done"}
    /\ calls'[i].pc # "idle"
    /\ \/ calls[i].pc # calls'[i].pc
       \/ calls[i].method # calls'[i].method
       \/ calls[i].params # calls'[i].params

\* C15: a wallet created without a client has no client until the first
\* connect; and a call of getAccount, getBalance, getBalanceFormatted,
\* getNonce, transfer, stake, unstake, submitProposal, vote or of
\* signTransfer without a nonce on a wallet that has no client ends at
\* once with NETWORK_ERROR, has sent no request, and leaves the wallet
\* without a client.
C15_DisconnectedFails ==
    /\ []((op = "init" /\ ~Has(arg, "client")) => client = NONE)
    /\ [][\A i \in DOMAIN calls :
            (client = NONE /\ Starts(i) /\ NetworkDependent(calls'[i])) =>
                /\ calls'[i].pc = "done"
                /\ calls'[i].ret = Throw("NETWORK_ERROR")
                /\ calls'[i].requests = <<>>
                /\ client' = NONE]_vars

C15_Witness ==
    /\ client = NONE
    /\ op = "init"
    /\ ~Has(arg, "client")
    /\ calls[1].pc = "done"
    /\ calls[1].method = "signTransfer"
    /\ ~Has(calls[1].params, "nonce")
    /\ calls[1].ret = Throw("NETWORK_ERROR")

\* C16: a wallet that has a client keeps having one; after a connect the
\* wallet's client is the client of the endpoint of the last connect, be
\* it the first client or another one; and a call that starts sends its
\* first request through the client the wallet has at that moment.
C16_ConnectForward ==
    /\ [](op = "connect" => client = TesseraClient(arg))
    /\ [][/\ client # NONE => client' # NONE
          /\ \A i \in DOMAIN calls :
                (Starts(i) /\ calls'[i].requests # <<>>) =>
                    /\ client # NONE
                    /\ calls'[i].client = client
                    /\ calls'[i].requests[1].client = client]_vars

C16_Witness ==
    /\ op = "connect"
    /\ arg = 2
    /\ calls[1].pc = "submitTransaction"
    /\ calls[1].requests[1].client = TesseraClient(2)
    /\ calls[1].requests[2].client = TesseraClient(2)

\* the number that a bigint of at most one limb is
SmallValue(v) == IF v = <<>> THEN 0 ELSE v[1]

\* the call has sent its transaction
Submitted(call) ==
    /\ call.pc # "idle"
    /\ call.method \in MutatingMethods
    /\ \E n \in DOMAIN call.requests : call.requests[n].path = "/rpc"

\* C17: a mutating call asks for the account at most once; when it has
\* sent its transaction it has asked exactly once, before, and the
\* transaction, sent with tx_submit, carries a signature of the wallet's
\* key and the nonce that the query returned plus one; and a call returns
\* a handle only if it has sent its transaction.
C17_NonceOnceAndPlusOne ==
    \A i \in DOMAIN calls :
        /\ (calls[i].pc # "idle" /\ calls[i].method \in MutatingMethods) =>
              /\ Cardinality({n \in DOMAIN calls[i].requests :
                                calls[i].requests[n].path = "/get_account"}) <= 1
              /\ (calls[i].pc = "done" /\ ~IsThrown(calls[i].ret)) =>
                    Submitted(calls[i])
        /\ Submitted(calls[i]) =>
              LET json == calls[i].requests[2].body.params
              IN  /\ Len(calls[i].requests) = 2
                  /\ calls[i].requests[1].path = "/get_account"
                  /\ calls[i].requests[2].body.method = "tx_submit"
                  /\ json.nonce =
                        bigintToString(FromNat(SmallValue(calls[i].account.nonce) + 1))
                  /\ KeyPair_verify(WalletBuilder.keyPair.publicKey,
                                    serializeForSigning(jsonToTransaction(json)),
                                    hexToBytes(json.signature))

C17_Witness ==
    /\ calls[1].pc = "done"
    /\ calls[1].method = "vote"
    /\ ~IsThrown(calls[1].ret)
    /\ calls[1].account.nonce = FromNat(2)
    /\ calls[1].requests[2].body.params.nonce = Str(<<51>>)

\* C18: nothing reserves a nonce or orders the calls: a call can reach its
\* submission while another call stands at its own, and two calls that
\* stand at their submissions at the same time and have read the same
\* nonce n have both sent a transaction with the nonce n + 1.
C18_DuplicateNonce ==
    \A i, j \in DOMAIN calls :
        (/\ i # j
         /\ calls[i].pc = "submitTransaction"
         /\ calls[j].pc = "submitTransaction"
         /\ calls[i].account.nonce = calls[j].account.nonce) =>
            /\ calls[i].requests[2].body.params.nonce =
                  bigintToString(FromNat(SmallValue(calls[i].account.nonce) + 1))
            /\ calls[j].requests[2].body.params.nonce =
                  calls[i].requests[2].body.params.nonce

C18_Witness ==
    /\ calls[1].pc = "submitTransaction"
    /\ calls[2].pc = "submitTransaction"
    /\ calls[1].method = "transfer"
    /\ calls[2].method = "stake"
    /\ calls[1].account.nonce = FromNat(1)
    /\ calls[2].account.nonce = FromNat(1)
    /\ calls[1].requests[2].body.params.nonce = Str(<<50>>)
    /\ calls[2].requests[2].body.params.nonce = Str(<<50>>)

(***************************************************************************)
(* Properties of wait                                                      *)
(***************************************************************************)
\* the polls a call of wait has made
Polls(call) == IF call.pc = "idle" THEN 0 ELSE Len(call.requests)

\* C19: a call of wait that has ended has returned a receipt for the hash
\* of its handle or has failed with a Timeout error, and with no other
\* error, whatever the node answered
C19_ReceiptOrTimeout ==
    \A i \in DOMAIN calls :
        (calls[i].pc = "done" /\ calls[i].method = "wait") =>
            \/ calls[i].ret = Throw("TIMEOUT")
            \/ /\ "value" \in DOMAIN calls[i].ret
               /\ calls[i].ret.value.hash = calls[i].hash

\* timeoutMs of a call, 60000 when the call gives none
TimeoutOf(call) == IF Len(call.params) = 0 THEN 60000 ELSE call.params[1]

\* ceil(n / 1000) for n >= 0
CeilSeconds(n) == (n + 999) \div 1000

\* C20: wait starts a poll only while less than timeoutMs (default 60000)
\* has passed since it was called; after a poll that did not find the
\* transaction the next check comes 1000 ms later, after every poll the
\* same; it makes at most ceil(timeoutMs / 1000) polls, and with
\* timeoutMs <= 0 it makes no poll and fails with Timeout
C20_BoundedPolling ==
    /\ [](\A i \in DOMAIN calls :
            calls[i].pc # "idle" =>
                /\ TimeoutOf(calls[i]) > 0 =>
                       Polls(calls[i]) <= CeilSeconds(TimeoutOf(calls[i]))
                /\ TimeoutOf(calls[i]) <= 0 =>
                       /\ Polls(calls[i]) = 0
                       /\ calls[i].pc = "done"
                       /\ calls[i].ret = Throw("TIMEOUT"))
    /\ [][\A i \in DOMAIN calls :
            /\ Polls(calls[i]') > Polls(calls[i]) =>
                   clock - calls[i].startTime' < TimeoutOf(calls[i]')
            /\ (calls[i].pc = "getTransaction" /\ calls[i].pc' = "setTimeout") =>
                   calls[i].wake' = clock + 1000
            /\ (calls[i].pc = "setTimeout" /\ calls[i].pc' # "setTimeout") =>
                   clock >= calls[i].wake]_vars

\* wait(1500) has made its second and last poll one second after its first
\* and has failed with Timeout two seconds after the call
C20_Witness ==
    /\ calls[1].pc = "done"
    /\ calls[1].params = <<1500>>
    /\ Polls(calls[1]) = 2
    /\ calls[1].ret = Throw("TIMEOUT")
    /\ clock = calls[1].startTime + 2000

\* the params of the call fail the local validation of its method: a
\* recipient that is no address, an amount that is no amount, or a payload
\* over the limit
FailsValidation(call) ==
    /\ call.method = "transfer"
    /\ \/ call.params.to = BAD_ADDRESS
       \/ call.params.amount = [string |-> TWO_POINTS]
       \/ /\ Has(call.params, "payload")
          /\ call.params.payload = [bytes |-> Zeros(MAX_PAYLOAD_SIZE + 1)]

\* C21: a mutating call sends tx_submit at most once, and only after its
\* nonce query has been answered with the account and with a transaction
\* that carries a signature of the wallet's key; a call whose params fail
\* the local validation sends no transaction; a call that has failed has
\* failed with the error of its nonce query (having sent nothing else), of
\* the validation (having sent no transaction) or of its one submission,
\* and has no handle; and the step that ends a call, and every step after
\* it, sends no request for it.
C21_NoRetry ==
    /\ [](\A i \in DOMAIN calls :
            (calls[i].pc # "idle" /\ calls[i].method \in MutatingMethods) =>
                /\ Cardinality({n \in DOMAIN calls[i].requests :
                                  calls[i].requests[n].path = "/rpc"}) <= 1
                /\ Submitted(calls[i]) =>
                      /\ calls[i].account # NONE
                      /\ ~FailsValidation(calls[i])
                      /\ calls[i].requests[Len(calls[i].requests)].path = "/rpc"
                /\ (calls[i].pc = "done" /\ IsThrown(calls[i].ret)) =>
                      /\ calls[i].account = NONE =>
                            /\ calls[i].ret \in TransportErrors
                            /\ Len(calls[i].requests) <= 1
                      /\ (calls[i].account # NONE /\ ~Submitted(calls[i])) =>
                            /\ calls[i].ret \in {Throw("INVALID_ADDRESS"),
                                                 Throw("INVALID_TRANSACTION")}
                            /\ FailsValidation(calls[i])
                      /\ Submitted(calls[i]) => calls[i].ret \in TransportErrors
                /\ (calls[i].pc = "done" /\ FailsValidation(calls[i])) =>
                      IsThrown(calls[i].ret))
    /\ [][\A i \in DOMAIN calls :
            (~Starts(i) /\ calls'[i].pc = "done"
                /\ calls'[i].method \in MutatingMethods) =>
                    calls'[i].requests = calls[i].requests]_vars

\* a transfer that has failed with the error of its one submission
C21_Witness ==
    /\ calls[1].pc = "done"
    /\ calls[1].method = "transfer"
    /\ calls[1].params.amount = [string |-> ONE_AND_A_HALF]
    /\ Len(calls[1].requests) = 2
    /\ calls[1].requests[2].body.params.amount = Str(<<49, 53, 48, 48, 48, 48, 48>>)
    /\ calls[1].ret = Throw("RPC_ERROR")

\* C22: a call of signTransfer with a nonce ends at once, also on a wallet
\* without a client; it has sent no request and has returned the wire
\* JSON with that nonce in decimal (0 for 0n), with the chain id of the
\* call or else of the wallet, with a signature of 128 hex characters and
\* a hash of 64 hex characters
C22_OfflineSigning ==
    [][\A i \in DOMAIN calls :
          (/\ Starts(i)
           /\ calls'[i].method = "signTransfer"
           /\ Has(calls'[i].params, "nonce")) =>
              LET params == calls'[i].params
                  json == calls'[i].ret.value
              IN  /\ calls'[i].pc = "done"
                  /\ calls'[i].requests = <<>>
                  /\ ~IsThrown(calls'[i].ret)
                  /\ json.nonce = bigintToString(params.nonce)
                  /\ params.nonce = <<>> => json.nonce = Str(<<48>>)
                  /\ json.chain_id = IF Has(params, "chainId") THEN params.chainId
                                     ELSE TESTNET
                  /\ Len(json.signature) = 128
                  /\ \A n \in 1..128 : IsHexChar(json.signature[n])
                  /\ Len(json.hash) = 64
                  /\ \A n \in 1..64 : IsHexChar(json.hash[n])]_vars

\* a wallet that never had a client has signed a transfer with the nonce 0n
C22_Witness ==
    /\ client = NONE
    /\ op = "init"
    /\ calls[1].pc = "done"
    /\ calls[1].method = "signTransfer"
    /\ Has(calls[1].params, "nonce")
    /\ calls[1].params.nonce = <<>>
    /\ calls[1].requests = <<>>
    /\ ~IsThrown(calls[1].ret)
    /\ calls[1].ret.value.nonce = Str(<<48>>)

(***************************************************************************)
(* Properties of the key derivation                                        *)
(***************************************************************************)
\* the passphrase and the account index of a call, with the defaults
PassphraseOf(args) == IF Len(args) >= 2 THEN args[2] ELSE <<>>

AccountIndexOf(args) == IF Len(args) >= 3 THEN args[3] ELSE <<>>

\* C23: two calls of mnemonicToKeyPair with the same phrase, passphrase and
\* account index return the same address; with the same valid phrase and
\* two different account indices, or two different passphrases, they
\* return different addresses; and a call with an invalid phrase throws
\* INVALID_MNEMONIC
C23_Derivation ==
    op = "mnemonicToKeyPair" =>
        LET a == arg[1]
            b == arg[2]
            same == /\ a[1] = b[1]
                    /\ PassphraseOf(a) = PassphraseOf(b)
                    /\ AccountIndexOf(a) = AccountIndexOf(b)
        IN  /\ a[1] \notin ValidMnemonics => ret.first = Throw("INVALID_MNEMONIC")
            /\ b[1] \notin ValidMnemonics => ret.second = Throw("INVALID_MNEMONIC")
            /\ (a[1] \in ValidMnemonics /\ b[1] \in ValidMnemonics) =>
                  /\ ~IsThrown(ret.first)
                  /\ ~IsThrown(ret.second)
                  /\ same => KeyPair_address(ret.first) = KeyPair_address(ret.second)
                  /\ (a[1] = b[1] /\ ~same) =>
                        KeyPair_address(ret.first) # KeyPair_address(ret.second)

\* C24: at every point after its construction a KeyPair has the private
\* key it was made of, the public key of that private key and the address
\* of that public key, whatever the caller has done with the arrays it
\* passed in or was handed
C24_KeyPairImmutable ==
    /\ arg[tx.privateKey] = PrivateKeyOf(who)
    /\ arg[tx.publicKey] = ed_getPublicKey(PrivateKeyOf(who))
    /\ bytesToHex(arg[tx.publicKey]) = bytesToHex(ed_getPublicKey(PrivateKeyOf(who)))

(***************************************************************************)
(* Properties of the records                                               *)
(***************************************************************************)
\* C25: every record that a build method, sign or jsonToTransaction
\* returns has a from and a to of 32 bytes, a signature of 64 bytes, and an
\* amount, a nonce and a timestamp in [0, 2^64)
C25_WellFormedRecords ==
    (op \in BuildOps \cup {"sign", "jsonToTransaction", "jsonToTransaction.tx_type"}
        /\ ~IsThrown(ret)) =>
            /\ Len(ret.from) = 32
            /\ Len(ret.to) = 32
            /\ Len(ret.signature) = 64
            /\ InU64(ret.amount)
            /\ InU64(ret.nonce)
            /\ InU64(ret.timestamp)

\* C26: a call of wait returns a receipt with the status confirmed only on
\* an answer of the node that has the transaction and does not say that
\* it is in the mempool; on an answer that says in_mempool the call goes
\* on to its pause and its next poll
C26_ConfirmedMeansIncluded ==
    \A i \in DOMAIN calls :
        /\ (/\ calls[i].pc = "done"
            /\ calls[i].method = "wait"
            /\ "value" \in DOMAIN calls[i].ret
            /\ calls[i].ret.value.status = "confirmed") =>
               /\ Has(ret, "transaction")
               /\ ~ret.in_mempool
        /\ (/\ calls[i].pc # "idle"
            /\ calls[i].method = "wait"
            /\ Has(ret, "in_mempool")
            /\ ret.in_mempool) => calls[i].pc = "setTimeout"

\* C27: the transactions that one caller has submitted with one call after
\* the other carry strictly increasing nonces, whether or not the node has
\* produced a block in between
C27_SequentialNonces ==
    \A m, n \in DOMAIN tx :
        m < n => SmallValue(BigInt(tx[m])) < SmallValue(BigInt(tx[n]))

(***************************************************************************)
(* Properties of merkleRoot on lists of different lengths                  *)
(***************************************************************************)
\* C28: for a list of odd length, three or more, merkleRoot returns what it
\* returns for the list with a second copy of its last element at the end,
\* a list that is one longer
C28_MerkleNotInjective ==
    (op = "merkleRoot" /\ Len(arg) >= 3 /\ Len(arg) % 2 = 1) =>
        LET longer == Append(arg, arg[Len(arg)])
        IN  /\ Len(longer) = Len(arg) + 1
            /\ longer # arg
            /\ ret = merkleRoot(longer)

\* a list of three digests and its root, which is the root of the four
C28_Witness ==
    /\ op = "merkleRoot"
    /\ Len(arg) = 3
    /\ arg[2] # arg[3]
    /\ ret = merkleRoot(<<arg[1], arg[2], arg[3], arg[3]>>)
    /\ ret = hash(hash(arg[1] \o arg[2]) \o hash(arg[3] \o arg[3]))

\* C29: every call of wait ends: it returns a receipt or fails, provided
\* that every request is answered or fails and that time passes
C29_WaitTerminates ==
    \A i \in {1} :
        (calls[i].pc # "idle") ~> (calls[i].pc = "done")

\* a wait that has polled four times, each time for nothing, and has then
\* failed with Timeout
C29_Witness ==
    /\ calls[1].pc = "done"
    /\ calls[1].params = <<4000>>
    /\ Len(calls[1].requests) = 4
    /\ calls[1].ret = Throw("TIMEOUT")

\* the requests that wait sends through a handle with its first poll and,
\* where the answer to it ends nothing, with its second poll
HandlePolls(handle) ==
    UNION {LET first == Wait_call(handle, <<>>, clock)
               answered == Wait_afterGetTransaction(first, response, clock)
               second == IF answered.pc = "setTimeout"
                         THEN Wait_loop(answered, answered.wake)
                         ELSE answered
           IN  {second.requests[n] : n \in DOMAIN second.requests} :
           response \in TransactionResponses(handle.hash)}

\* C30: a mutating call keeps the client that the wallet had when the call
\* started: a connect while the call is in flight changes nothing of it;
\* its nonce query and its tx_submit go to that client, and so do the polls
\* of the handle it returns
C30_OneEndpoint ==
    /\ [](\A i \in DOMAIN calls :
            (calls[i].pc # "idle" /\ calls[i].method \in MutatingMethods) =>
                /\ \A n \in DOMAIN calls[i].requests :
                      calls[i].requests[n].client = calls[i].client
                /\ (calls[i].pc = "done" /\ ~IsThrown(calls[i].ret)) =>
                      /\ calls[i].ret.value.client = calls[i].client
                      /\ HandlePolls(calls[i].ret.value) # {}
                      /\ \A request \in HandlePolls(calls[i].ret.value) :
                            request.client = calls[i].client)
    /\ [][\A i \in DOMAIN calls :
            /\ (Starts(i) /\ calls'[i].method \in MutatingMethods) =>
                  calls'[i].client = client
            /\ (calls[i].pc \notin {"idle", "done"}
                    /\ calls[i].method \in MutatingMethods) =>
                  /\ calls'[i].client = calls[i].client
                  /\ calls'[i].method = calls[i].method
                  /\ Len(calls'[i].requests) >= Len(calls[i].requests)
                  /\ \A n \in DOMAIN calls[i].requests :
                        calls'[i].requests[n] = calls[i].requests[n]]_vars

\* a transfer that started with the client of endpoint 1 has sent its
\* tx_submit while the wallet is connected to endpoint 2
C30_Witness ==
    /\ op = "connect"
    /\ client = TesseraClient(2)
    /\ calls[1].pc = "submitTransaction"
    /\ calls[1].method = "transfer"
    /\ calls[1].client = TesseraClient(1)
    /\ Len(calls[1].requests) = 2
    /\ calls[1].requests[2].client = TesseraClient(1)

====
